---- MODULE Spec2Model ----
(***************************************************************************)
(* Model of the xenobalanus crate (src/src/lib.rs, src/src/threedee.rs):   *)
(* the derived-graph builder (GeometryData::add_triangle driven by the     *)
(* parallel Xenobalanus::preprocess), the 3D registrations and             *)
(* preprocess_3d, the void detector Xenobalanus::delfin, the clusterer     *)
(* Xenobalanus::dtscan and Xenobalanus::order_hull_edges.                  *)
(*                                                                         *)
(* Numbers.  Coordinates are small integers.  A length is carried as its   *)
(* square (sqrt is strictly increasing and exact enough on these values    *)
(* that every comparison of two lengths, and of a length with a threshold, *)
(* has the same outcome on the squares); an area is carried in half units  *)
(* (the shoelace numerator, before the division by 2.0), and so are the    *)
(* area thresholds.  Indices are 0-based as in the code; a Vec is a        *)
(* sequence, so entry i of a Vec is element i + 1 of the sequence.         *)
(* Option<T> is a set with at most one element: {} is None, {x} is Some(x).*)
(* A HashMap is a function whose domain is its key set.                    *)
(***************************************************************************)
EXTENDS Integers, Sequences, FiniteSets, TLC

VARIABLES
    points,         \* Xenobalanus.points
    triangulation,  \* Xenobalanus.triangulation (flat vertex indices)
    geometry_data,  \* Xenobalanus.geometry_data
    types,          \* the build mode handed to preprocess
    shared,         \* preprocess: the GeometryData behind Arc<Mutex<..>>
    mutex,          \* preprocess: {} when free, {i} when task i holds the lock
    pc,             \* preprocess: position of the closure run for chunk i
    local,          \* preprocess: add_triangle's locals of the task in it
    main,           \* which call the instance is in / has finished
    calls,          \* the registrations made directly on geometry_data, in order
    df,             \* the frame of a delfin call
    ds,             \* the frame of a dtscan call
    oh,             \* the frame of an order_hull_edges call
    p3              \* the frame of a preprocess_3d call

vars == <<points, triangulation, geometry_data, types, shared, mutex, pc,
          local, main, calls, df, ds, oh, p3>>

-----------------------------------------------------------------------------
(* Bounds of the model *)

\* the largest number of triangles (chunks of 3) in a triangulation
MaxTris == 3

\* the largest number of triangles of a graph handed to delfin
MaxQueryTris == 4

\* the largest number of triangles of a graph handed to dtscan
MaxClusterTris == 3

\* the largest number of registrations made one after the other on one graph
MaxCalls == 2

\* the largest number of edges handed to order_hull_edges
MaxHullEdges == 3

\* the largest number of tetrahedra of a mesh handed to preprocess_3d
MaxTetras == 2

\* the largest number of triangles of a graph a delfin call is followed on to
\* its return
MaxFairTris == 3

-----------------------------------------------------------------------------
(* Generic helpers *)

Abs(x) == IF x < 0 THEN -x ELSE x

Min2(a, b) == IF a <= b THEN a ELSE b

Max2(a, b) == IF a >= b THEN a ELSE b

Range(s) == {s[i] : i \in DOMAIN s}

\* HashMap::insert / entry().or_default() on a function used as a map
Put(m, k, v) == [x \in (DOMAIN m) \cup {k} |-> IF x = k THEN v ELSE m[x]]

\* HashMap::get: Option of the value
Get(m, k) == IF k \in DOMAIN m THEN {m[k]} ELSE {}

\* the element of a Some
The(opt) == CHOOSE x \in opt : TRUE

EmptyMap == <<>>

-----------------------------------------------------------------------------
(* Points *)

\* The point array of the 2D runs: the unit square 0..3 and a fifth point.
\* Squared lengths: 01=1 02=2 03=1 04=8 12=1 13=2 14=5 23=1 24=2 34=5.
PointArray ==
    (0 :> <<0, 0>>) @@ (1 :> <<1, 0>>) @@ (2 :> <<1, 1>>) @@
    (3 :> <<0, 1>>) @@ (4 :> <<2, 2>>)

\* Point::distance (src/src/lib.rs:29), as the square of the length
distance(p, q) ==
    (q[1] - p[1]) * (q[1] - p[1]) + (q[2] - p[2]) * (q[2] - p[2])

\* Edge(min(a, b), max(a, b))
MkEdge(a, b) == <<Min2(a, b), Max2(a, b)>>

-----------------------------------------------------------------------------
(* TriangleData and GeometryData *)

\* TriangleData::default()
DefaultTriangle ==
    [index |-> 0, area |-> {}, terminal_edge |-> {}, vertices |-> <<>>]

\* GeometryData::new() with triangles: vec![TriangleData::default()]
NewGeometryDataOneRecord ==
    [triangles |-> <<DefaultTriangle>>,
     edge_to_triangles |-> EmptyMap,
     edge_lengths |-> EmptyMap,
     vertex_connections |-> EmptyMap]

\* GeometryData::new()
NewGeometryData ==
    [triangles |-> <<>>,
     edge_to_triangles |-> EmptyMap,
     edge_lengths |-> EmptyMap,
     vertex_connections |-> EmptyMap]

\* vertices.sort_unstable() on three indices
Sort3(a, b, c) ==
    LET lo == Min2(a, Min2(b, c))
        hi == Max2(a, Max2(b, c))
    IN  <<lo, a + b + c - lo - hi, hi>>

\* TriangleData::get_edges: the cyclic pairs of the stored vertices
get_edges(t) ==
    IF Len(t.vertices) >= 3
    THEN {MkEdge(t.vertices[i],
                 IF i + 1 <= Len(t.vertices) THEN t.vertices[i + 1]
                                              ELSE t.vertices[1])
            : i \in 1..Len(t.vertices)}
    ELSE {}

\* the comparator taken as b.1 >= a.1: x goes in front of its equals
InsertDescTiesFirst(sorted, x) ==
    LET k == Cardinality({i \in 1..Len(sorted) : sorted[i][2] > x[2]})
    IN  SubSeq(sorted, 1, k) \o <<x>> \o SubSeq(sorted, k + 1, Len(sorted))

\* One step of a stable sort by descending length of <<item, length>> pairs:
\* x goes behind every element that is not shorter than it.
InsertDesc(sorted, x) ==
    LET k == Cardinality({i \in 1..Len(sorted) : sorted[i][2] >= x[2]})
    IN  SubSeq(sorted, 1, k) \o <<x>> \o SubSeq(sorted, k + 1, Len(sorted))

\* slice::sort_by(|a, b| b.1.partial_cmp(&a.1).unwrap()): stable, descending
RECURSIVE SortDesc(_)
SortDesc(s) ==
    IF s = <<>> THEN <<>>
    ELSE InsertDesc(SortDesc(SubSeq(s, 1, Len(s) - 1)), s[Len(s)])

\* add_triangle, lines 94-126: the geometry of one triangle, no graph access
Compute(pts, tri, ty) ==
    LET a == pts[tri[1]]
        b == pts[tri[2]]
        c == pts[tri[3]]
        temp == SortDesc(<< <<MkEdge(tri[1], tri[2]), distance(a, b)>>,
                            <<MkEdge(tri[2], tri[3]), distance(b, c)>>,
                            <<MkEdge(tri[3], tri[1]), distance(c, a)>> >>)
    IN  [vertices |-> Sort3(tri[1], tri[2], tri[3]),
         edges_with_lengths_temp |-> temp,
         terminal_edge |-> IF temp = <<>> THEN {} ELSE {temp[1][1]},
         area |-> IF ty = 0 \/ ty = 2
                  THEN {Abs(a[1] * (b[2] - c[2]) + b[1] * (c[2] - a[2])
                            + c[1] * (a[2] - b[2]))}
                  ELSE {}]

\* vertex_connections.entry(a).or_insert_with(HashSet::new).insert(b)
Connect(vc, a, b) ==
    Put(vc, a, (IF a \in DOMAIN vc THEN vc[a] ELSE {}) \cup {b})

\* edge_to_triangles.insert(edge, vec![index]): the earlier entries are lost
PushTriangleLost(e2t, edge, index) == Put(e2t, edge, <<index>>)

\* edge_to_triangles.entry(edge).or_default().push(index)
PushTriangle(e2t, edge, index) ==
    Put(e2t, edge, Append(IF edge \in DOMAIN e2t THEN e2t[edge] ELSE <<>>, index))

\* the loop body of lines 129-134 run in every mode
MergeEdgeAnyMode(gd, index, el, ty) ==
    [gd EXCEPT
        !.vertex_connections =
            Connect(Connect(@, el[1][1], el[1][2]), el[1][2], el[1][1]),
        !.edge_lengths = Put(@, el[1], el[2]),
        !.edge_to_triangles = PushTriangle(@, el[1], index)]

\* the loop body without line 131: the connection is recorded one way only
MergeEdgeOneWay(gd, index, el, ty) ==
    [gd EXCEPT
        !.vertex_connections =
            IF ty = 0 \/ ty = 1 THEN Connect(@, el[1][1], el[1][2]) ELSE @,
        !.edge_lengths = Put(@, el[1], el[2]),
        !.edge_to_triangles = PushTriangle(@, el[1], index)]

\* the loop body of lines 129-134 without line 132: in the modes that connect
\* vertices the length of the edge is not recorded
MergeEdgeNoLength(gd, index, el, ty) ==
    [gd EXCEPT
        !.vertex_connections =
            IF ty = 0 \/ ty = 1
            THEN Connect(Connect(@, el[1][1], el[1][2]), el[1][2], el[1][1])
            ELSE @,
        !.edge_lengths = IF ty = 0 \/ ty = 1 THEN @ ELSE Put(@, el[1], el[2]),
        !.edge_to_triangles = PushTriangle(@, el[1], index)]

\* the body of the loops at lines 129-134 and 137-140 for one edge
MergeEdge(gd, index, el, ty) ==
    [gd EXCEPT
        !.vertex_connections =
            IF ty = 0 \/ ty = 1
            THEN Connect(Connect(@, el[1][1], el[1][2]), el[1][2], el[1][1])
            ELSE @,
        !.edge_lengths = Put(@, el[1], el[2]),
        !.edge_to_triangles = PushTriangle(@, el[1], index)]

RECURSIVE MergeEdges(_, _, _, _)
MergeEdges(gd, index, els, ty) ==
    IF els = <<>> THEN gd
    ELSE MergeEdges(MergeEdge(gd, index, Head(els), ty), index, Tail(els), ty)

\* Vec::resize without the guard of line 144: shrinks as well as grows
ResizeAlways(triangles, index) ==
    IF index >= Len(triangles)
    THEN triangles \o [i \in 1..(index + 1 - Len(triangles)) |-> DefaultTriangle]
    ELSE SubSeq(triangles, 1, index + 1)

\* lines 144-146: grow the triangle array to hold entry index
Resize(triangles, index) ==
    IF index >= Len(triangles)
    THEN triangles \o [i \in 1..(index + 1 - Len(triangles)) |-> DefaultTriangle]
    ELSE triangles

\* lines 143-155 without the test of line 148: the record of the triangle
\* is written in every mode
MergeRecordAlways(gd, index, loc, ty) ==
    LET g1 == MergeEdges(gd, index, loc.edges_with_lengths_temp, ty)
        tr == Resize(g1.triangles, index)
    IN  [g1 EXCEPT !.triangles =
            [tr EXCEPT ![index + 1] =
                [index |-> index, area |-> loc.area,
                 terminal_edge |-> loc.terminal_edge,
                 vertices |-> loc.vertices]]]

\* add_triangle, lines 128-155: the writes to the graph
Merge(gd, index, loc, ty) ==
    LET g1 == MergeEdges(gd, index, loc.edges_with_lengths_temp, ty)
        tr == Resize(g1.triangles, index)
    IN  [g1 EXCEPT !.triangles =
            IF ty = 0 \/ ty = 2
            THEN [tr EXCEPT ![index + 1] =
                    [index |-> index, area |-> loc.area,
                     terminal_edge |-> loc.terminal_edge,
                     vertices |-> loc.vertices]]
            ELSE tr]

\* GeometryData::add_triangle as a whole
AddTriangle(gd, index, pts, tri, ty) == Merge(gd, index, Compute(pts, tri, ty), ty)

-----------------------------------------------------------------------------
(* The 3D registrations of src/src/threedee.rs *)

\* tetrahedrons.get_vertices(): the vertex array of the tetrahedral mesh
Vertices3D ==
    (0 :> <<0, 0, 0>>) @@ (1 :> <<1, 0, 0>>) @@ (2 :> <<0, 2, 0>>) @@
    (3 :> <<0, 0, 1>>) @@ (4 :> <<1, 1, 1>>)

\* Point3D::distance, as the square of the length
distance3d(p, q) ==
    (q[1] - p[1]) * (q[1] - p[1]) + (q[2] - p[2]) * (q[2] - p[2])
        + (q[3] - p[3]) * (q[3] - p[3])

\* vertex_connections gets a -> b and b -> a (two consecutive entry() lines)
ConnectBoth(vc, a, b) == Connect(Connect(vc, a, b), b, a)

\* Xenobalanus::add_triangle(vertex1, vertex2, vertex3)
AddTriangle3D(gd, v1, v2, v3) ==
    LET n1 == Vertices3D[v1]
        n2 == Vertices3D[v2]
        n3 == Vertices3D[v3]
    IN  [gd EXCEPT
            !.edge_lengths =
                Put(Put(Put(@, MkEdge(v1, v2), distance3d(n1, n2)),
                        MkEdge(v2, v3), distance3d(n2, n3)),
                    MkEdge(v3, v1), distance3d(n3, n1)),
            !.vertex_connections =
                ConnectBoth(ConnectBoth(ConnectBoth(@, v1, v2), v2, v3), v3, v1)]

\* Xenobalanus::add_tetrahedron(vertex1, vertex2, vertex3, vertex4)
AddTetrahedron(gd, v1, v2, v3, v4) ==
    LET n1 == Vertices3D[v1]
        n2 == Vertices3D[v2]
        n3 == Vertices3D[v3]
        n4 == Vertices3D[v4]
    IN  [gd EXCEPT
            !.edge_lengths =
                Put(Put(Put(Put(Put(Put(@,
                    MkEdge(v1, v2), distance3d(n1, n2)),
                    MkEdge(v2, v3), distance3d(n2, n3)),
                    MkEdge(v3, v1), distance3d(n3, n1)),
                    MkEdge(v4, v1), distance3d(n4, n1)),
                    MkEdge(v4, v2), distance3d(n4, n2)),
                    MkEdge(v4, v3), distance3d(n4, n3)),
            !.vertex_connections =
                ConnectBoth(ConnectBoth(ConnectBoth(ConnectBoth(ConnectBoth(ConnectBoth(@,
                    v1, v2), v2, v3), v3, v1), v4, v1), v4, v2), v4, v3)]

-----------------------------------------------------------------------------
(* The triangulation and its chunks *)

\* par_chunks(3): the number of chunks of a flat array
NumChunks(flat) == (Len(flat) + 2) \div 3

\* chunk index (0-based) of par_chunks(3).enumerate()
Chunk(flat, index) ==
    SubSeq(flat, 3 * index + 1, Min2(3 * index + 3, Len(flat)))

\* lines 94-96: the indexing of tri_idx and of points that add_triangle does
\* first succeeds: three indices, each one of a point
ChunkOk(pts, tri) ==
    /\ Len(tri) = 3
    /\ \A k \in 1..3 : tri[k] \in DOMAIN pts

RECURSIVE Flatten(_)
Flatten(tris) == IF tris = <<>> THEN <<>> ELSE Head(tris) \o Flatten(Tail(tris))

\* the graph of adding chunks order[1], order[2], ... one after the other
RECURSIVE BuildInOrder(_, _, _, _)
BuildInOrder(pts, flat, ty, order) ==
    IF order = <<>> THEN NewGeometryData
    ELSE LET i == order[Len(order)]
         IN  AddTriangle(BuildInOrder(pts, flat, ty, SubSeq(order, 1, Len(order) - 1)),
                         i, pts, Chunk(flat, i), ty)

\* the sequential build: chunks in index order
SeqBuild(pts, flat, ty) ==
    BuildInOrder(pts, flat, ty, [k \in 1..NumChunks(flat) |-> k - 1])

\* the triangles a triangulation provider can name: a < b < c
Triples(pts) ==
    {t \in (DOMAIN pts) \X (DOMAIN pts) \X (DOMAIN pts) : t[1] < t[2] /\ t[2] < t[3]}

\* position of a triple in the lexicographic order
Rank(t) == (t[1] * 16 + t[2]) * 16 + t[3]

\* Triangulations of at most MaxTris triangles, as lists of triples.  The
\* lists are taken up to the order of their triangles (they are listed in
\* lexicographic order, repetitions allowed): permuting a list only renames
\* the triangle indices, and every completion order of the workers is explored.
TriLists(pts) ==
    {l \in UNION {[1..n -> Triples(pts)] : n \in 0..MaxTris} :
        \A i \in 1..(Len(l) - 1) : Rank(l[i]) <= Rank(l[i + 1])}

-----------------------------------------------------------------------------
(* Calls that are not running *)

IdleDelfin == [pc |-> "idle"]

IdleDtscan == [pc |-> "idle"]

IdleHull == [pc |-> "idle"]

Idle3D == [pc |-> "idle"]

Tasks == 0..(NumChunks(triangulation) - 1)

-----------------------------------------------------------------------------
(* Xenobalanus::preprocess: one closure run per chunk, one mutex *)

Init ==
    /\ points = PointArray
    /\ triangulation \in {Flatten(l) : l \in TriLists(PointArray)}
    /\ types \in 0..2
    /\ geometry_data = NewGeometryData
    /\ shared = NewGeometryData
    /\ mutex = {}
    /\ pc = [i \in Tasks |-> "start"]
    /\ local = [i \in Tasks |-> {}]
    /\ main = "preprocess"
    /\ calls = <<>>
    /\ df = IdleDelfin
    /\ ds = IdleDtscan
    /\ oh = IdleHull
    /\ p3 = Idle3D

\* the closure starts on its triangle without taking the lock: the geometry
\* is computed with the mutex free
LockSkipped(i) ==
    /\ main = "preprocess"
    /\ pc[i] = "start"
    /\ pc' = [pc EXCEPT ![i] = "compute"]
    /\ UNCHANGED <<points, triangulation, geometry_data, types, shared, mutex,
                   local, main, calls, df, ds, oh, p3>>

\* line 263: gd.lock().unwrap()
Lock(i) ==
    /\ main = "preprocess"
    /\ pc[i] = "start"
    /\ mutex = {}
    /\ mutex' = {i}
    /\ pc' = [pc EXCEPT ![i] = "compute"]
    /\ UNCHANGED <<points, triangulation, geometry_data, types, shared, local,
                   main, calls, df, ds, oh, p3>>

\* line 264, first half: add_triangle computes lengths, terminal edge, area
ComputeStep(i) ==
    /\ main = "preprocess"
    /\ pc[i] = "compute"
    /\ ChunkOk(points, Chunk(triangulation, i))
    /\ local' = [local EXCEPT ![i] = {Compute(points, Chunk(triangulation, i), types)}]
    /\ pc' = [pc EXCEPT ![i] = "merge"]
    /\ UNCHANGED <<points, triangulation, geometry_data, types, shared, mutex,
                   main, calls, df, ds, oh, p3>>

\* line 264, second half, and the guard's drop at the end of the closure
MergeStep(i) ==
    /\ main = "preprocess"
    /\ pc[i] = "merge"
    /\ shared' = Merge(shared, i, The(local[i]), types)
    /\ local' = [local EXCEPT ![i] = {}]
    /\ mutex' = {}
    /\ pc' = [pc EXCEPT ![i] = "done"]
    /\ UNCHANGED <<points, triangulation, geometry_data, types, main, calls, df, ds,
                   oh, p3>>

\* line 267 reached although a task panicked (the panic caught per task, the
\* poisoned lock taken with into_inner): what the other tasks built is kept
JoinAfterPanic ==
    /\ main = "preprocess"
    /\ \A i \in Tasks : pc[i] \in {"done", "panicked"}
    /\ geometry_data' = shared
    /\ main' = "built"
    /\ UNCHANGED <<points, triangulation, types, shared, mutex, pc, local, calls,
                   df, ds, oh, p3>>

\* line 267: the for_each has returned; the graph becomes the instance's
Join ==
    /\ main = "preprocess"
    /\ \A i \in Tasks : pc[i] = "done"
    /\ geometry_data' = shared
    /\ main' = "built"
    /\ UNCHANGED <<points, triangulation, types, shared, mutex, pc, local, calls,
                   df, ds, oh, p3>>

Next ==
    \/ \E i \in Tasks : Lock(i)
    \/ \E i \in Tasks : ComputeStep(i)
    \/ \E i \in Tasks : MergeStep(i)
    \/ Join

Spec == Init /\ [][Next]_vars

-----------------------------------------------------------------------------
(* Properties of the parallel build *)

\* the three canonical edges of chunk i of the triangulation
ChunkEdges(i) ==
    LET c == Chunk(triangulation, i)
    IN  {MkEdge(c[1], c[2]), MkEdge(c[2], c[3]), MkEdge(c[3], c[1])}

\* the input triangles that have e as an edge
TrianglesOn(e) == {i \in Tasks : e \in ChunkEdges(i)}

\* how often x occurs in the list s
Count(s, x) == Cardinality({k \in DOMAIN s : s[k] = x})

\* the same keys, and under each key the same indices as often, in any order
SameUpToOrder(m1, m2) ==
    /\ DOMAIN m1 = DOMAIN m2
    /\ \A e \in DOMAIN m1 :
        /\ Len(m1[e]) = Len(m2[e])
        /\ \A x \in Range(m1[e]) : Count(m1[e], x) = Count(m2[e], x)

\* C1: whatever the interleaving of the workers, the finished graph is the
\* graph of adding the triangles one after the other in index order: the same
\* triangles array, with one entry per input triangle and entry i that of
\* triangle i, the same edge_lengths, the same vertex_connections, and under
\* every edge the same triangle indices up to their order in the list.
C1_ParallelEqualsSequential ==
    main = "built" =>
        LET seq == SeqBuild(points, triangulation, types)
        IN  /\ geometry_data.triangles = seq.triangles
            /\ Len(geometry_data.triangles) = NumChunks(triangulation)
            /\ types # 1 =>
                \A i \in Tasks :
                    /\ geometry_data.triangles[i + 1].index = i
                    /\ Range(geometry_data.triangles[i + 1].vertices)
                         = Range(Chunk(triangulation, i))
            /\ geometry_data.edge_lengths = seq.edge_lengths
            /\ geometry_data.vertex_connections = seq.vertex_connections
            /\ SameUpToOrder(geometry_data.edge_to_triangles, seq.edge_to_triangles)

\* C1 witness: a finished build of three triangles whose workers merged out
\* of index order, visibly: some edge lists its triangles in another order
\* than the sequential build does.
C1_Witness ==
    /\ main = "built"
    /\ NumChunks(triangulation) = 3
    /\ geometry_data.edge_to_triangles
         # SeqBuild(points, triangulation, types).edge_to_triangles
    /\ Len(geometry_data.triangles) = 3

\* every triangle has three distinct vertices and no edge is in three triangles
Manifold ==
    /\ \A i \in Tasks : Cardinality(Range(Chunk(triangulation, i))) = 3
    /\ \A i \in Tasks : \A e \in ChunkEdges(i) : Cardinality(TrianglesOn(e)) <= 2

\* C2: when every edge belongs to at most two triangles, after preprocess
\* every edge of edge_to_triangles lists exactly the triangles that have it
\* as an edge, each once, so one or two of them; and no edge of a triangle
\* is missing from the map.
C2_EdgeLists ==
    (main = "built" /\ Manifold) =>
        /\ \A i \in Tasks : ChunkEdges(i) \subseteq DOMAIN geometry_data.edge_to_triangles
        /\ \A e \in DOMAIN geometry_data.edge_to_triangles :
            LET l == geometry_data.edge_to_triangles[e]
            IN  /\ Range(l) = TrianglesOn(e)
                /\ \A x \in Range(l) : Count(l, x) = 1
                /\ Len(l) \in {1, 2}

\* C2 witness: a finished build of three triangles, no edge in three of them,
\* with an interior edge (two triangles) whose later triangle merged first.
C2_Witness ==
    /\ main = "built"
    /\ Manifold
    /\ NumChunks(triangulation) = 3
    /\ \E e \in DOMAIN geometry_data.edge_to_triangles :
        /\ Len(geometry_data.edge_to_triangles[e]) = 2
        /\ geometry_data.edge_to_triangles[e][1] > geometry_data.edge_to_triangles[e][2]

\* C5: preprocess fills the sub-structures of the build-mode table: records
\* (sorted vertices, area, terminal edge) in modes 0 and 2 and none of the
\* two in mode 1; connections in modes 0 and 1 and none in mode 2; and in
\* every mode each edge of each triangle in edge_to_triangles and edge_lengths.
C5_BuildModes ==
    main = "built" =>
        /\ \A i \in Tasks : \A e \in ChunkEdges(i) :
            /\ e \in DOMAIN geometry_data.edge_to_triangles
            /\ i \in Range(geometry_data.edge_to_triangles[e])
            /\ e \in DOMAIN geometry_data.edge_lengths
            /\ geometry_data.edge_lengths[e] = distance(points[e[1]], points[e[2]])
        /\ types \in {0, 2} =>
            \A i \in Tasks :
                LET t == geometry_data.triangles[i + 1]
                    c == Chunk(triangulation, i)
                IN  /\ t.vertices = Sort3(c[1], c[2], c[3])
                    /\ t.area # {}
                    /\ t.terminal_edge # {}
                    /\ t.terminal_edge \subseteq ChunkEdges(i)
        /\ types = 1 =>
            \A i \in Tasks :
                /\ geometry_data.triangles[i + 1].area = {}
                /\ geometry_data.triangles[i + 1].terminal_edge = {}
        /\ types \in {0, 1} =>
            \A i \in Tasks : \A e \in ChunkEdges(i) :
                /\ e[1] \in DOMAIN geometry_data.vertex_connections
                /\ e[2] \in DOMAIN geometry_data.vertex_connections
                /\ e[2] \in geometry_data.vertex_connections[e[1]]
                /\ e[1] \in geometry_data.vertex_connections[e[2]]
        /\ types = 2 => DOMAIN geometry_data.vertex_connections = {}

\* C5 witness: a finished mode 2 build of three triangles (records filled,
\* no connections, edges and lengths present).
C5_Witness ==
    /\ main = "built"
    /\ types = 2
    /\ NumChunks(triangulation) = 3
    /\ DOMAIN geometry_data.edge_lengths # {}
    /\ geometry_data.triangles[3].area # {}

-----------------------------------------------------------------------------
(* GeometryData::add_triangle as a function of its arguments: one call, on *)
(* a new graph, with any triple of point indices in any order.             *)

\* every triple of point indices, in every order, repetitions included
AnyTriples(pts) == (DOMAIN pts) \X (DOMAIN pts) \X (DOMAIN pts)

InitAdd ==
    /\ points = PointArray
    /\ triangulation \in AnyTriples(PointArray)
    /\ types \in 0..2
    /\ geometry_data = NewGeometryData
    /\ shared = NewGeometryData
    /\ mutex = {}
    /\ pc = <<>>
    /\ local = <<>>
    /\ main = "add"
    /\ calls = <<>>
    /\ df = IdleDelfin
    /\ ds = IdleDtscan
    /\ oh = IdleHull
    /\ p3 = Idle3D

\* add_triangle(index, &points, tri_idx, types) on the instance's graph
AddCall(index) ==
    /\ main = "add"
    /\ calls = <<>>
    /\ geometry_data' = AddTriangle(geometry_data, index, points,
                                    Chunk(triangulation, 0), types)
    /\ calls' = <<[op |-> "add_triangle", index |-> index]>>
    /\ UNCHANGED <<points, triangulation, types, shared, mutex, pc, local, main,
                   df, ds, oh, p3>>

NextAdd == \E index \in 0..(MaxTris - 1) : AddCall(index)

SpecAdd == InitAdd /\ [][NextAdd]_vars

\* the edges of the input triple in the order (v0,v1), (v1,v2), (v2,v0)
EnumEdges(tri) == <<MkEdge(tri[1], tri[2]), MkEdge(tri[2], tri[3]), MkEdge(tri[3], tri[1])>>

\* their lengths, from the coordinates
EnumLengths(pts, tri) ==
    <<distance(pts[tri[1]], pts[tri[2]]), distance(pts[tri[2]], pts[tri[3]]),
      distance(pts[tri[3]], pts[tri[1]])>>

\* the first position of the enumeration whose length is maximal
FirstLongest(ls) ==
    CHOOSE k \in 1..3 :
        /\ \A j \in 1..3 : ls[j] <= ls[k]
        /\ \A j \in 1..(k - 1) : ls[j] < ls[k]

\* C3: a triangle recorded in mode 0 or 2 has as terminal_edge the first
\* edge, in the order (v0,v1), (v1,v2), (v2,v0) of the input triple, whose
\* length is maximal: no edge of the triangle is longer, and among equally
\* long ones the edge listed first wins.
C3_TerminalEdge ==
    (calls # <<>> /\ types \in {0, 2}) =>
        LET t  == geometry_data.triangles[calls[1].index + 1]
            es == EnumEdges(triangulation)
            ls == EnumLengths(points, triangulation)
        IN  /\ t.terminal_edge = {es[FirstLongest(ls)]}
            /\ \A j \in 1..3 :
                 geometry_data.edge_lengths[es[j]]
                    <= geometry_data.edge_lengths[The(t.terminal_edge)]

\* C3 witness: a recorded triangle with two different edges of the same,
\* maximal length, the terminal edge being the one listed first.
C3_Witness ==
    /\ calls # <<>>
    /\ types = 0
    /\ LET t  == geometry_data.triangles[calls[1].index + 1]
           es == EnumEdges(triangulation)
           ls == EnumLengths(points, triangulation)
       IN  \E j, k \in 1..3 :
             /\ j < k
             /\ ls[j] = ls[k]
             /\ es[j] # es[k]
             /\ \A i \in 1..3 : ls[i] <= ls[j]
             /\ t.terminal_edge = {es[j]}

-----------------------------------------------------------------------------
(* Registrations made one after the other on the instance's graph: 2D      *)
(* add_triangle merges in any mode and the 3D add_triangle and             *)
(* add_tetrahedron of the mesh adapter, in any mix.                        *)

InitGraph ==
    /\ points = PointArray
    /\ triangulation = <<>>
    /\ types = 0
    /\ geometry_data = NewGeometryData
    /\ shared = NewGeometryData
    /\ mutex = {}
    /\ pc = <<>>
    /\ local = <<>>
    /\ main = "graph"
    /\ calls = <<>>
    /\ df = IdleDelfin
    /\ ds = IdleDtscan
    /\ oh = IdleHull
    /\ p3 = Idle3D

\* the index the next 2D triangle gets: the number of 2D triangles so far
NextIndex == Cardinality({k \in DOMAIN calls : calls[k].op = "add_triangle"})

\* geometry_data.add_triangle(index, &points, tri, ty)
Add2D(tri, ty) ==
    /\ main = "graph"
    /\ Len(calls) < MaxCalls
    /\ geometry_data' = AddTriangle(geometry_data, NextIndex, points, tri, ty)
    /\ calls' = Append(calls, [op |-> "add_triangle", index |-> NextIndex])
    /\ UNCHANGED <<points, triangulation, types, shared, mutex, pc, local, main,
                   df, ds, oh, p3>>

\* self.add_triangle(v1, v2, v3) of threedee.rs
Add3D(v1, v2, v3) ==
    /\ main = "graph"
    /\ Len(calls) < MaxCalls
    /\ Cardinality({v1, v2, v3}) = 3
    /\ geometry_data' = AddTriangle3D(geometry_data, v1, v2, v3)
    /\ calls' = Append(calls, [op |-> "add_triangle_3d", index |-> 0])
    /\ UNCHANGED <<points, triangulation, types, shared, mutex, pc, local, main,
                   df, ds, oh, p3>>

\* self.add_tetrahedron(v1, v2, v3, v4)
Add4(v1, v2, v3, v4) ==
    /\ main = "graph"
    /\ Len(calls) < MaxCalls
    /\ Cardinality({v1, v2, v3, v4}) = 4
    /\ geometry_data' = AddTetrahedron(geometry_data, v1, v2, v3, v4)
    /\ calls' = Append(calls, [op |-> "add_tetrahedron", index |-> 0])
    /\ UNCHANGED <<points, triangulation, types, shared, mutex, pc, local, main,
                   df, ds, oh, p3>>

NextGraph ==
    \/ \E tri \in Triples(points), ty \in 0..2 : Add2D(tri, ty)
    \/ \E v1, v2, v3 \in DOMAIN Vertices3D : Add3D(v1, v2, v3)
    \/ \E v1, v2, v3, v4 \in DOMAIN Vertices3D : Add4(v1, v2, v3, v4)

SpecGraph == InitGraph /\ [][NextGraph]_vars

\* C4: vertex_connections is symmetric in every graph state reached by 2D
\* merges and 3D registrations: b is a connection of a exactly when a is a
\* connection of b.
C4_Symmetric ==
    \A a \in DOMAIN geometry_data.vertex_connections :
        \A b \in geometry_data.vertex_connections[a] :
            /\ b \in DOMAIN geometry_data.vertex_connections
            /\ a \in geometry_data.vertex_connections[b]

\* C4 witness: a graph that a 2D merge and a 3D registration have both
\* written connections to.
C4_Witness ==
    /\ \E k \in DOMAIN calls : calls[k].op = "add_triangle"
    /\ \E k \in DOMAIN calls : calls[k].op # "add_triangle"
    /\ \E a \in DOMAIN geometry_data.vertex_connections :
         Cardinality(geometry_data.vertex_connections[a]) >= 3

-----------------------------------------------------------------------------
(* The graphs handed to the queries: what preprocess can leave behind *)

\* Two completion orders of n tasks: index order, and the reverse of it
\* (the last triangle merges first, so every shared edge lists its triangles
\* in decreasing order).
Orders(n) == {[k \in 1..n |-> k - 1], [k \in 1..n |-> n - k]}

\* the graphs preprocess(ty) ends with under these completion orders
Builds(pts, flat, ty) ==
    {BuildInOrder(pts, flat, ty, o) : o \in Orders(NumChunks(flat))}

\* Triangulations of at most MaxQueryTris different triangles, listed in
\* lexicographic order (see TriLists).
QueryLists(pts) ==
    {l \in UNION {[1..n -> Triples(pts)] : n \in 0..MaxQueryTris} :
        \A i \in 1..(Len(l) - 1) : Rank(l[i]) < Rank(l[i + 1])}

-----------------------------------------------------------------------------
(* Xenobalanus::delfin *)

\* the thresholds tried: squared lengths around those of the point array
MinDistances == {0, 2, 5, 9}

\* the thresholds tried: areas in half units
MinAreas == {0, 2, 4, 5}

\* lines 279-282 with > for >= in the filter of line 281
RECURSIVE SeedsStrict(_, _, _)
SeedsStrict(gd, min_distance, i) ==
    IF i > Len(gd.triangles) THEN <<>>
    ELSE LET t == gd.triangles[i]
             l == IF t.terminal_edge = {} THEN {}
                  ELSE Get(gd.edge_lengths, The(t.terminal_edge))
         IN  (IF l # {} /\ The(l) > min_distance THEN << <<t.index, The(l)>> >> ELSE <<>>)
                \o SeedsStrict(gd, min_distance, i + 1)

\* lines 279-282: (index, length) of the records from entry i on that have a
\* terminal edge with a recorded length of at least min_distance
RECURSIVE Seeds(_, _, _)
Seeds(gd, min_distance, i) ==
    IF i > Len(gd.triangles) THEN <<>>
    ELSE LET t == gd.triangles[i]
             l == IF t.terminal_edge = {} THEN {}
                  ELSE Get(gd.edge_lengths, The(t.terminal_edge))
         IN  (IF l # {} /\ The(l) >= min_distance THEN << <<t.index, The(l)>> >> ELSE <<>>)
                \o Seeds(gd, min_distance, i + 1)

\* lines 279-282 without the sort of line 285
TrianglesUnsorted(gd, min_distance) == Seeds(gd, min_distance, 1)

\* lines 279-285
TrianglesSorted(gd, min_distance) == SortDesc(Seeds(gd, min_distance, 1))

\* Vec::get(i) on the triangle array
GetTriangle(gd, i) == IF i < Len(gd.triangles) THEN {gd.triangles[i + 1]} ELSE {}

\* lines 321-341 with line 336 moved in front of the test of line 333: a
\* neighbour is marked processed when it is looked at, joined or not
VisitNeighborMarkAll(gd, seed, st, edge, neighbor_index) ==
    IF neighbor_index \in st.processed_triangles THEN st
    ELSE LET nt == GetTriangle(gd, neighbor_index)
         IN  IF nt # {} /\ The(nt).terminal_edge = {edge}
             THEN [st EXCEPT
                     !.current_set = @ \cup {neighbor_index},
                     !.processed_triangles = @ \cup {seed, neighbor_index},
                     !.edges_to_expand = @ \cup get_edges(The(nt))]
             ELSE [st EXCEPT !.processed_triangles = @ \cup {neighbor_index}]

\* lines 321-341 without the test of line 333: a neighbour on the edge joins
\* whatever its own terminal edge is
VisitNeighborAdjacent(gd, seed, st, edge, neighbor_index) ==
    IF neighbor_index \in st.processed_triangles THEN st
    ELSE LET nt == GetTriangle(gd, neighbor_index)
         IN  IF nt # {} /\ The(nt).terminal_edge # {}
             THEN [st EXCEPT
                     !.current_set = @ \cup {neighbor_index},
                     !.processed_triangles = @ \cup {seed, neighbor_index},
                     !.edges_to_expand = @ \cup get_edges(The(nt))]
             ELSE st

\* lines 321-341 without the test of line 322: a neighbour whose terminal
\* edge is the frontier edge joins again each time the edge is taken
VisitNeighborAgain(gd, seed, st, edge, neighbor_index) ==
    LET nt == GetTriangle(gd, neighbor_index)
    IN  IF nt # {} /\ The(nt).terminal_edge = {edge}
        THEN [st EXCEPT
                !.current_set = @ \cup {neighbor_index},
                !.processed_triangles = @ \cup {seed, neighbor_index},
                !.edges_to_expand = @ \cup get_edges(The(nt))]
        ELSE st

\* lines 321-341: one neighbour of the edge taken from the frontier
VisitNeighbor(gd, seed, st, edge, neighbor_index) ==
    IF neighbor_index \in st.processed_triangles THEN st
    ELSE LET nt == GetTriangle(gd, neighbor_index)
         IN  IF nt # {} /\ The(nt).terminal_edge = {edge}
             THEN [st EXCEPT
                     !.current_set = @ \cup {neighbor_index},
                     !.processed_triangles = @ \cup {seed, neighbor_index},
                     !.edges_to_expand = @ \cup get_edges(The(nt))]
             ELSE st

RECURSIVE VisitNeighbors(_, _, _, _, _)
VisitNeighbors(gd, seed, st, edge, ns) ==
    IF ns = <<>> THEN st
    ELSE VisitNeighbors(gd, seed, VisitNeighbor(gd, seed, st, edge, Head(ns)),
                        edge, Tail(ns))

\* lines 313-344: the loop body for the edge taken from the frontier
ExpandEdge(gd, seed, st, edge) ==
    LET st1 == [st EXCEPT !.edges_to_expand = @ \ {edge}]
    IN  IF edge \in DOMAIN gd.edge_to_triangles
        THEN VisitNeighbors(gd, seed, st1, edge, gd.edge_to_triangles[edge])
        ELSE st1

\* lines 295-309 with processed_triangles declared inside the for loop: every
\* region starts from an empty processed set
SeedRegionFresh(gd, seed, st) ==
    [st EXCEPT
        !.current_set = {seed},
        !.processed_triangles = {seed},
        !.edges_to_expand =
            IF GetTriangle(gd, seed) # {} THEN get_edges(The(GetTriangle(gd, seed)))
            ELSE {}]

\* lines 295-309 as in delfin of src/src/main.rs (lines 204-216): the region
\* starts with the seed and every triangle on the seed's terminal edge
SeedRegionWithNeighbours(gd, seed, st) ==
    LET t == GetTriangle(gd, seed)
        on == IF t # {} /\ The(t).terminal_edge # {}
                   /\ The(The(t).terminal_edge) \in DOMAIN gd.edge_to_triangles
              THEN Range(gd.edge_to_triangles[The(The(t).terminal_edge)])
              ELSE {}
    IN  [st EXCEPT
            !.current_set = {seed} \cup on,
            !.processed_triangles = @ \cup {seed} \cup on,
            !.edges_to_expand = IF t # {} THEN get_edges(The(t)) ELSE {}]

\* lines 295-309: a new region around the seed
SeedRegion(gd, seed, st) ==
    [st EXCEPT
        !.current_set = {seed},
        !.processed_triangles = @ \cup {seed},
        !.edges_to_expand =
            IF GetTriangle(gd, seed) # {} THEN get_edges(The(GetTriangle(gd, seed)))
            ELSE {}]

\* lines 347-350: keep the region if it has more than one triangle
\* (grown records every region the loop has finished, kept or not, and seeds
\* the seed of each)
CloseRegion(st) ==
    [st EXCEPT
        !.void_polygons = IF Cardinality(st.current_set) > 1
                          THEN Append(@, st.current_set) ELSE @,
        !.grown = Append(@, st.current_set),
        !.seeds = Append(@, st.seed)]

\* lines 355-357: the sum of the areas the triangles of a region have
RECURSIVE AreaSum(_, _)
AreaSum(gd, set) ==
    IF set = {} THEN 0
    ELSE LET i == CHOOSE x \in set : TRUE
             a == gd.triangles[i + 1].area
         IN  (IF a = {} THEN 0 ELSE The(a)) + AreaSum(gd, set \ {i})

\* lines 354-358 with > for >=
RetainStrict(gd, polys, min_area) ==
    SelectSeq(polys, LAMBDA set : AreaSum(gd, set) > min_area)

\* lines 354-358
Retain(gd, polys, min_area) ==
    SelectSeq(polys, LAMBDA set : AreaSum(gd, set) >= min_area)

\* The frame of delfin when the for loop is entered.  min_area is read at
\* line 357 only; the frame holds it from there on ({} before).
DelfinFrame(gd, min_distance) ==
    [pc |-> "for",
     min_area |-> {},
     min_distance |-> min_distance,
     triangles_sorted |-> TrianglesSorted(gd, min_distance),
     k |-> 1,
     seed |-> 0,
     processed_triangles |-> {},
     current_set |-> {},
     edges_to_expand |-> {},
     void_polygons |-> <<>>,
     grown |-> <<>>,
     seeds |-> <<>>]

\* the while loop of lines 312-345 run to its end, the frontier edge taken
\* being each time the one CHOOSE names
RECURSIVE GrowRef(_, _)
GrowRef(gd, st) ==
    IF st.edges_to_expand = {} THEN st
    ELSE GrowRef(gd, ExpandEdge(gd, st.seed, st, CHOOSE e \in st.edges_to_expand : TRUE))

\* the for loop of lines 288-351 run to its end
RECURSIVE ForRef(_, _)
ForRef(gd, st) ==
    IF st.k > Len(st.triangles_sorted) THEN st
    ELSE LET t == st.triangles_sorted[st.k][1]
         IN  ForRef(gd,
                IF t \in st.processed_triangles
                THEN [st EXCEPT !.k = @ + 1]
                ELSE [CloseRegion(GrowRef(gd, [SeedRegion(gd, t, st) EXCEPT !.seed = t]))
                        EXCEPT !.k = @ + 1])

\* delfin(min_area, min_distance) on the graph gd, as one function
DelfinRef(gd, min_area, min_distance) ==
    Retain(gd, ForRef(gd, DelfinFrame(gd, min_distance)).void_polygons, min_area)

InitDelfin ==
    /\ points = PointArray
    /\ \E l \in QueryLists(PointArray) :
        /\ triangulation = Flatten(l)
        /\ types \in 0..2
        /\ geometry_data \in Builds(PointArray, Flatten(l), types)
    /\ shared = NewGeometryData
    /\ mutex = {}
    /\ pc = <<>>
    /\ local = <<>>
    /\ main = "built"
    /\ calls = <<>>
    /\ df = IdleDelfin
    /\ ds = IdleDtscan
    /\ oh = IdleHull
    /\ p3 = Idle3D

\* lines 275-285: the call, up to the head of the for loop
DelfinStart(min_distance) ==
    /\ main = "built"
    /\ df.pc = "idle"
    /\ df' = DelfinFrame(geometry_data, min_distance)
    /\ UNCHANGED <<points, triangulation, geometry_data, types, shared, mutex,
                   pc, local, main, calls, ds, oh, p3>>

\* lines 288-309: the next triangle of the sorted list: skipped, or a seed
DelfinSeed ==
    /\ df.pc = "for"
    /\ df.k <= Len(df.triangles_sorted)
    /\ LET t == df.triangles_sorted[df.k][1]
       IN  df' = IF t \in df.processed_triangles
                 THEN [df EXCEPT !.k = @ + 1]
                 ELSE [SeedRegion(geometry_data, t, df) EXCEPT
                          !.pc = "while", !.seed = t]
    /\ UNCHANGED <<points, triangulation, geometry_data, types, shared, mutex,
                   pc, local, main, calls, ds, oh, p3>>

\* lines 312-345: one turn of the while loop, on any edge of the frontier
DelfinExpand ==
    /\ df.pc = "while"
    /\ \E edge \in df.edges_to_expand :
         df' = ExpandEdge(geometry_data, df.seed, df, edge)
    /\ UNCHANGED <<points, triangulation, geometry_data, types, shared, mutex,
                   pc, local, main, calls, ds, oh, p3>>

\* lines 347-351: the frontier is empty
DelfinClose ==
    /\ df.pc = "while"
    /\ df.edges_to_expand = {}
    /\ df' = [CloseRegion(df) EXCEPT !.pc = "for", !.k = @ + 1]
    /\ UNCHANGED <<points, triangulation, geometry_data, types, shared, mutex,
                   pc, local, main, calls, ds, oh, p3>>

\* lines 353-360: the for loop is over
DelfinRetain(min_area) ==
    /\ df.pc = "for"
    /\ df.k > Len(df.triangles_sorted)
    /\ df' = [df EXCEPT !.void_polygons = Retain(geometry_data, @, min_area),
                        !.min_area = {min_area},
                        !.pc = "done"]
    /\ UNCHANGED <<points, triangulation, geometry_data, types, shared, mutex,
                   pc, local, main, calls, ds, oh, p3>>

NextDelfin ==
    \/ \E d \in MinDistances : DelfinStart(d)
    \/ DelfinSeed
    \/ DelfinExpand
    \/ DelfinClose
    \/ \E a \in MinAreas : DelfinRetain(a)

SpecDelfin == InitDelfin /\ [][NextDelfin]_vars

\* the steps of a call that has begun: delfin is one sequential call on the
\* caller's thread, so a call that can take its next step takes it
DelfinRun ==
    \/ DelfinSeed
    \/ DelfinExpand
    \/ DelfinClose
    \/ \E a \in MinAreas : DelfinRetain(a)

\* the triangles of the graphs a whole call is followed on: the two halves
\* of the unit square by either diagonal, and three triangles to point 4
FairTriples ==
    {<<0, 1, 2>>, <<0, 2, 3>>, <<0, 1, 3>>, <<1, 2, 3>>,
     <<1, 2, 4>>, <<1, 3, 4>>, <<2, 3, 4>>}

\* Triangulations of at most MaxFairTris different triangles of FairTriples
FairLists ==
    {l \in UNION {[1..n -> FairTriples] : n \in 0..MaxFairTris} :
        \A i \in 1..(Len(l) - 1) : Rank(l[i]) < Rank(l[i + 1])}

InitDelfinFair ==
    /\ points = PointArray
    /\ \E l \in FairLists :
        /\ triangulation = Flatten(l)
        /\ types \in 0..2
        /\ geometry_data \in Builds(PointArray, Flatten(l), types)
    /\ shared = NewGeometryData
    /\ mutex = {}
    /\ pc = <<>>
    /\ local = <<>>
    /\ main = "built"
    /\ calls = <<>>
    /\ df = IdleDelfin
    /\ ds = IdleDtscan
    /\ oh = IdleHull
    /\ p3 = Idle3D

SpecDelfinFair == InitDelfinFair /\ [][NextDelfin]_vars /\ WF_vars(DelfinRun)

\* C6: the regions of one delfin call are pairwise disjoint: no triangle
\* index is in two of them.
C6_Disjoint ==
    df.pc # "idle" =>
        \A i, j \in DOMAIN df.void_polygons :
            i # j => df.void_polygons[i] \cap df.void_polygons[j] = {}

\* C6 witness: a finished call that returns two regions.
C6_Witness ==
    /\ df.pc = "done"
    /\ Len(df.void_polygons) >= 2

\* the area (in half units) of input triangle i, from the coordinates
TrueArea(i) ==
    LET c == Chunk(triangulation, i)
        p == points[c[1]]
        q == points[c[2]]
        r == points[c[3]]
    IN  Abs((q[1] - p[1]) * (r[2] - p[2]) - (r[1] - p[1]) * (q[2] - p[2]))

RECURSIVE TrueAreaSum(_)
TrueAreaSum(set) ==
    IF set = {} THEN 0
    ELSE LET i == CHOOSE x \in set : TRUE IN TrueArea(i) + TrueAreaSum(set \ {i})

\* a region that has to be returned: two triangles at least, area enough
Qualifies(r, min_area) == Cardinality(r) >= 2 /\ TrueAreaSum(r) >= min_area

\* C7: the regions delfin returns are exactly the grown regions that have at
\* least 2 triangles and whose areas sum to at least min_area, in the order
\* they were grown: none that fails a condition, all that meet both.
C7_Filter ==
    df.pc = "done" =>
        /\ \A k \in DOMAIN df.void_polygons : Qualifies(df.void_polygons[k], The(df.min_area))
        /\ df.void_polygons
             = SelectSeq(df.grown, LAMBDA r : Qualifies(r, The(df.min_area)))

\* C7 witness: a finished call that dropped a region of two triangles for
\* its area and returned a region whose area is min_area exactly.
C7_Witness ==
    /\ df.pc = "done"
    /\ \E k \in DOMAIN df.grown :
        Cardinality(df.grown[k]) >= 2 /\ TrueAreaSum(df.grown[k]) < The(df.min_area)
    /\ \E k \in DOMAIN df.void_polygons :
        TrueAreaSum(df.void_polygons[k]) = The(df.min_area)

-----------------------------------------------------------------------------
(* Xenobalanus::dtscan *)

\* The point array of the clustering runs: two groups of three points, the
\* groups further apart than their points.  Squared lengths: 1, 1, 2 inside
\* a group; 13=4 15=5 03=9 14=9 25=9 05=10 23=10 04=16 24=17 between them.
ClusterPoints ==
    (0 :> <<0, 0>>) @@ (1 :> <<1, 0>>) @@ (2 :> <<0, 1>>) @@
    (3 :> <<3, 0>>) @@ (4 :> <<4, 0>>) @@ (5 :> <<3, 1>>)

\* The triangles the triangulations of the clustering runs are made of: the
\* two groups, and triangles that join them through vertex 1 or vertex 3.
ClusterTriples ==
    {<<0, 1, 2>>, <<3, 4, 5>>, <<1, 3, 5>>, <<0, 1, 3>>, <<1, 2, 3>>, <<1, 3, 4>>}

\* triangulations of at most MaxClusterTris different triangles (see TriLists)
ClusterLists(pts) ==
    {l \in UNION {[1..n -> ClusterTriples] : n \in 0..MaxClusterTris} :
        \A i \in 1..(Len(l) - 1) : Rank(l[i]) < Rank(l[i + 1])}

\* the thresholds tried
MinPts == {2, 3}

\* the thresholds tried: squared lengths
MaxCloseness == {1, 2, 4, 17}

\* every order of the elements of a set (the iteration orders of a HashSet)
IterationOrders(S) ==
    {q \in [1..Cardinality(S) -> S] : \A i, j \in DOMAIN q : i # j => q[i] # q[j]}

\* edge_lengths.get(&Edge(min(a, b), max(a, b)))
EdgeLength(gd, a, b) == Get(gd.edge_lengths, MkEdge(a, b))

\* lines 377-381 and 396-397: the edge has a length and it is small enough
IsClose(gd, a, b, max_closeness) ==
    LET l == EdgeLength(gd, a, b) IN l # {} /\ The(l) <= max_closeness

\* lines 376-382 with any for all at line 376: one close edge is enough
IsCoreAnyClose(gd, v, min_pts, max_closeness) ==
    /\ Cardinality(gd.vertex_connections[v]) >= min_pts
    /\ \E n \in gd.vertex_connections[v] : IsClose(gd, v, n, max_closeness)

\* lines 376-382: the core test of a key of vertex_connections
IsCore(gd, v, min_pts, max_closeness) ==
    /\ Cardinality(gd.vertex_connections[v]) >= min_pts
    /\ \A n \in gd.vertex_connections[v] : IsClose(gd, v, n, max_closeness)

\* lines 394-402 as in DBSCAN proper: only a core vertex passes the cluster on
AdmittedFromCore(gd, st, v) ==
    IF v \in DOMAIN gd.vertex_connections
         /\ IsCore(gd, v, st.min_pts, st.max_closeness)
    THEN {n \in gd.vertex_connections[v] :
            IsClose(gd, v, n, st.max_closeness) /\ n \notin st.visited}
    ELSE {}

\* lines 394-402: the neighbours of the vertex that go on the stack
Admitted(gd, st, v) ==
    IF v \in DOMAIN gd.vertex_connections
    THEN {n \in gd.vertex_connections[v] :
            IsClose(gd, v, n, st.max_closeness) /\ n \notin st.visited}
    ELSE {}

\* lines 386-403 without the test of line 387: the vertex joins the cluster
\* every time it is popped
PopVertexAgain(gd, st, pushes) ==
    LET v == st.to_expand[Len(st.to_expand)]
        rest == SubSeq(st.to_expand, 1, Len(st.to_expand) - 1)
    IN  [st EXCEPT
            !.visited = @ \cup {v},
            !.cluster = Append(@, v),
            !.to_expand = rest \o pushes]

\* lines 386-403: one turn of the while loop; pushes is the order in which
\* the admitted neighbours of the popped vertex are pushed
PopVertex(gd, st, pushes) ==
    LET v == st.to_expand[Len(st.to_expand)]
        rest == SubSeq(st.to_expand, 1, Len(st.to_expand) - 1)
    IN  IF v \in st.visited
        THEN [st EXCEPT !.to_expand = rest]
        ELSE [st EXCEPT
                !.visited = @ \cup {v},
                !.cluster = Append(@, v),
                !.to_expand = rest \o pushes]

\* the vertex popped next, counted as visited (what line 397 sees)
AfterInsert(st) ==
    [st EXCEPT !.visited = @ \cup {st.to_expand[Len(st.to_expand)]}]

\* lines 371-384: the outer loop at key v: skipped, or the start of a cluster
OuterVertex(gd, st, v) ==
    LET st1 == [st EXCEPT !.remaining = @ \ {v}]
    IN  IF v \in st.visited THEN st1
        ELSE IF IsCore(gd, v, st.min_pts, st.max_closeness)
             THEN [st1 EXCEPT !.pc = "while", !.cluster = <<>>, !.to_expand = <<v>>]
             ELSE st1

\* lines 405-407: the stack is empty
CloseCluster(st) ==
    [st EXCEPT
        !.clusters = IF st.cluster # <<>> THEN Append(@, st.cluster) ELSE @,
        !.cluster = <<>>,
        !.pc = "for"]

\* the frame of dtscan when the outer loop is entered
DtscanFrame(gd, min_pts, max_closeness) ==
    [pc |-> "for",
     min_pts |-> min_pts,
     max_closeness |-> max_closeness,
     remaining |-> DOMAIN gd.vertex_connections,
     visited |-> {},
     cluster |-> <<>>,
     to_expand |-> <<>>,
     clusters |-> <<>>]

\* the push order CHOOSE names
SomeOrder(S) == CHOOSE q \in IterationOrders(S) : TRUE

\* the while loop of lines 386-403 run to its end
RECURSIVE ExpandRef(_, _)
ExpandRef(gd, st) ==
    IF st.to_expand = <<>> THEN st
    ELSE ExpandRef(gd,
            PopVertex(gd, st,
                SomeOrder(Admitted(gd, AfterInsert(st), st.to_expand[Len(st.to_expand)]))))

\* the outer loop of lines 371-409 run to its end
RECURSIVE OuterRef(_, _)
OuterRef(gd, st) ==
    IF st.remaining = {} THEN st
    ELSE LET st1 == OuterVertex(gd, st, CHOOSE v \in st.remaining : TRUE)
         IN  OuterRef(gd, IF st1.pc = "while" THEN CloseCluster(ExpandRef(gd, st1))
                          ELSE st1)

\* dtscan(min_pts, max_closeness) on the graph gd, as one function
DtscanRef(gd, min_pts, max_closeness) ==
    OuterRef(gd, DtscanFrame(gd, min_pts, max_closeness)).clusters

InitDtscan ==
    /\ points = ClusterPoints
    /\ \E l \in ClusterLists(ClusterPoints) :
        /\ triangulation = Flatten(l)
        /\ types \in 0..2
        /\ geometry_data = SeqBuild(ClusterPoints, Flatten(l), types)
    /\ shared = NewGeometryData
    /\ mutex = {}
    /\ pc = <<>>
    /\ local = <<>>
    /\ main = "built"
    /\ calls = <<>>
    /\ df = IdleDelfin
    /\ ds = IdleDtscan
    /\ oh = IdleHull
    /\ p3 = Idle3D

\* lines 368-369: the call, up to the head of the outer loop
DtscanStart(min_pts, max_closeness) ==
    /\ main = "built"
    /\ ds.pc = "idle"
    /\ ds' = DtscanFrame(geometry_data, min_pts, max_closeness)
    /\ UNCHANGED <<points, triangulation, geometry_data, types, shared, mutex,
                   pc, local, main, calls, df, oh, p3>>

\* lines 371-384: the next key of vertex_connections, in any order
DtscanOuter ==
    /\ ds.pc = "for"
    /\ \E v \in ds.remaining : ds' = OuterVertex(geometry_data, ds, v)
    /\ UNCHANGED <<points, triangulation, geometry_data, types, shared, mutex,
                   pc, local, main, calls, df, oh, p3>>

\* lines 386-403: pop a vertex; its admitted neighbours are pushed in any order
DtscanPop ==
    /\ ds.pc = "while"
    /\ ds.to_expand # <<>>
    /\ \E pushes \in IterationOrders(
            Admitted(geometry_data, AfterInsert(ds), ds.to_expand[Len(ds.to_expand)])) :
         ds' = PopVertex(geometry_data, ds, pushes)
    /\ UNCHANGED <<points, triangulation, geometry_data, types, shared, mutex,
                   pc, local, main, calls, df, oh, p3>>

\* lines 405-408: the stack is empty
DtscanClose ==
    /\ ds.pc = "while"
    /\ ds.to_expand = <<>>
    /\ ds' = CloseCluster(ds)
    /\ UNCHANGED <<points, triangulation, geometry_data, types, shared, mutex,
                   pc, local, main, calls, df, oh, p3>>

\* line 411: every key has been taken
DtscanReturn ==
    /\ ds.pc = "for"
    /\ ds.remaining = {}
    /\ ds' = [ds EXCEPT !.pc = "done"]
    /\ UNCHANGED <<points, triangulation, geometry_data, types, shared, mutex,
                   pc, local, main, calls, df, oh, p3>>

NextDtscan ==
    \/ \E n \in MinPts, c \in MaxCloseness : DtscanStart(n, c)
    \/ DtscanOuter
    \/ DtscanPop
    \/ DtscanClose
    \/ DtscanReturn

SpecDtscan == InitDtscan /\ [][NextDtscan]_vars

\* the clusters built so far, the one under construction last
AllClusters == Append(ds.clusters, ds.cluster)

\* C8: the clusters of a dtscan call partition the vertices the call has
\* visited: no vertex is twice in a cluster, no vertex is in two clusters,
\* and the visited vertices are exactly those of the clusters.
C8_Partition ==
    ds.pc # "idle" =>
        /\ \A k \in DOMAIN AllClusters :
            \A i, j \in DOMAIN AllClusters[k] :
                i # j => AllClusters[k][i] # AllClusters[k][j]
        /\ \A k, m \in DOMAIN AllClusters :
            k # m => Range(AllClusters[k]) \cap Range(AllClusters[m]) = {}
        /\ ds.visited = UNION {Range(AllClusters[k]) : k \in DOMAIN AllClusters}

\* C8 witness: a finished call with two clusters that hold all six vertices.
C8_Witness ==
    /\ ds.pc = "done"
    /\ Len(ds.clusters) = 2
    /\ ds.visited = DOMAIN ClusterPoints

\* the vertex sets of a list of clusters
ClusterSets(cs) == {Range(cs[k]) : k \in DOMAIN cs}

\* C9: the clusters dtscan returns, as vertex sets, do not depend on the
\* order in which the outer loop takes the keys of vertex_connections nor on
\* the order in which neighbours are pushed and popped: every run returns as
\* many clusters, with the same vertex sets, as the reference run does.
C9_OrderIndependent ==
    ds.pc = "done" =>
        LET ref == DtscanRef(geometry_data, ds.min_pts, ds.max_closeness)
        IN  /\ Len(ds.clusters) = Len(ref)
            /\ ClusterSets(ds.clusters) = ClusterSets(ref)

\* C9 witness: a finished call that returned two clusters and whose traversal
\* differed from the reference run's: the first cluster is the same set of
\* vertices, collected in another order.
C9_Witness ==
    /\ ds.pc = "done"
    /\ Len(ds.clusters) = 2
    /\ LET ref == DtscanRef(geometry_data, ds.min_pts, ds.max_closeness)
       IN  /\ Len(ref) = 2
           /\ Range(ds.clusters[1]) = Range(ref[1])
           /\ ds.clusters[1] # ref[1]

-----------------------------------------------------------------------------
(* The unit square *)

\* the two triangulations of the unit square 0..3 into two triangles
SquareSplits == {<< <<0, 1, 2>>, <<0, 2, 3>> >>, << <<0, 1, 3>>, <<1, 2, 3>> >>}

\* the diagonal of a split: the edge its two triangles share
Diagonal(l) == IF l[1] = <<0, 1, 2>> THEN <<0, 2>> ELSE <<1, 3>>

\* the six orders in which a chunk can name the vertices of triangle t
VertexOrders(t) ==
    {<<t[a], t[b], t[c]>> : <<a, b, c>> \in
        {<<1, 2, 3>>, <<1, 3, 2>>, <<2, 1, 3>>, <<2, 3, 1>>, <<3, 1, 2>>, <<3, 2, 1>>}}

\* a split with its triangles in either order and their vertices in any order
SquareInputs(l) ==
    {<<u, v>> : <<u, v>> \in
        (VertexOrders(l[1]) \X VertexOrders(l[2])) \cup
        (VertexOrders(l[2]) \X VertexOrders(l[1]))}

\* C11: the unit square split into two triangles along a diagonal and built
\* in mode 0: both records have the diagonal (squared length 2) as terminal
\* edge, and a delfin call with min_distance <= the diagonal and min_area <=
\* 1.0 (2 half units) returns one region, {0, 1}; the same holds of the call
\* as a function for every vertex order and triangle order of the split.
C11_UnitSquare ==
    \A l \in SquareSplits :
        (/\ df.pc = "done"
         /\ types = 0
         /\ triangulation = Flatten(l)
         /\ df.min_distance <= 2
         /\ The(df.min_area) <= 2)
        => /\ \A i \in 1..2 : geometry_data.triangles[i].terminal_edge = {Diagonal(l)}
           /\ geometry_data.edge_lengths[Diagonal(l)] = 2
           /\ df.void_polygons = << {0, 1} >>
           /\ \A in \in SquareInputs(l) :
                \A gd \in Builds(points, Flatten(in), 0) :
                    /\ \A i \in 1..2 : gd.triangles[i].terminal_edge = {Diagonal(l)}
                    /\ DelfinRef(gd, The(df.min_area), df.min_distance) = << {0, 1} >>

\* C11 witness: a finished call on a split of the unit square built in mode
\* 0, with min_distance the diagonal itself and min_area the whole square.
C11_Witness ==
    /\ df.pc = "done"
    /\ types = 0
    /\ triangulation = Flatten(<< <<0, 1, 2>>, <<0, 2, 3>> >>)
    /\ df.min_distance = 2
    /\ The(df.min_area) = 2
    /\ df.void_polygons = << {0, 1} >>

-----------------------------------------------------------------------------
(* The instance over its life: set_triangles, preprocess, the queries *)

\* Xenobalanus::new(): no points
NoPoints == <<>>

\* a poisoned mutex: a task panicked while it held the lock
Poisoned == {-1}

\* The flat arrays handed to set_triangles: the empty one, sound ones (one
\* triangle, the unit square, three triangles), and unsound ones: an index
\* that is no point (in the first chunk, in the last), a length that is not
\* a multiple of 3.
PipeInputs ==
    {<<>>,
     <<0, 1, 2>>,
     <<0, 1, 2, 0, 2, 3>>,
     <<0, 1, 2, 0, 2, 3, 2, 3, 4>>,
     <<0, 1, 7>>,
     <<0, 7, 2, 0, 2, 3>>,
     <<0, 1, 2, 0, 2, 7>>,
     <<0, 1>>,
     <<0, 1, 2, 0>>,
     <<0, 1, 2, 0, 2, 3, 2, 3>>}

InitPipe ==
    /\ points \in {NoPoints, PointArray}
    /\ triangulation = <<>>
    /\ types = 0
    /\ geometry_data = NewGeometryData
    /\ shared = NewGeometryData
    /\ mutex = {}
    /\ pc = <<>>
    /\ local = <<>>
    /\ main = "new"
    /\ calls = <<>>
    /\ df = IdleDelfin
    /\ ds = IdleDtscan
    /\ oh = IdleHull
    /\ p3 = Idle3D

\* set_triangles(vertices)
SetTriangles(flat) ==
    /\ main \in {"new", "built", "failed"}
    /\ df.pc = "idle" /\ ds.pc = "idle"
    /\ triangulation' = flat
    /\ main' = "set"
    /\ UNCHANGED <<points, geometry_data, types, shared, mutex, pc, local, calls,
                   df, ds, oh, p3>>

\* preprocess(ty), line 257: a new graph behind the mutex, one task per chunk
PreprocessStart(ty) ==
    /\ main \in {"new", "set", "built", "failed"}
    /\ df.pc = "idle" /\ ds.pc = "idle"
    /\ types' = ty
    /\ shared' = NewGeometryData
    /\ mutex' = {}
    /\ pc' = [i \in Tasks |-> "start"]
    /\ local' = [i \in Tasks |-> {}]
    /\ main' = "preprocess"
    /\ UNCHANGED <<points, triangulation, geometry_data, calls, df, ds, oh, p3>>

\* lines 94-96: an index out of bounds panics in add_triangle, before any write
\* to the graph; the guard is dropped by the unwinding and poisons the mutex
Panic(i) ==
    /\ main = "preprocess"
    /\ pc[i] = "compute"
    /\ ~ChunkOk(points, Chunk(triangulation, i))
    /\ mutex' = Poisoned
    /\ pc' = [pc EXCEPT ![i] = "panicked"]
    /\ UNCHANGED <<points, triangulation, geometry_data, types, shared, local,
                   main, calls, df, ds, oh, p3>>

\* line 263: lock() on a poisoned mutex is an Err, and unwrap() panics
LockPoisoned(i) ==
    /\ main = "preprocess"
    /\ pc[i] = "start"
    /\ mutex = Poisoned
    /\ pc' = [pc EXCEPT ![i] = "panicked"]
    /\ UNCHANGED <<points, triangulation, geometry_data, types, shared, mutex,
                   local, main, calls, df, ds, oh, p3>>

\* line 259: for_each resumes the panic in the caller once every task is
\* over; line 267 is not reached and the graph behind the Arc is dropped
Unwind ==
    /\ main = "preprocess"
    /\ \A i \in Tasks : pc[i] \in {"done", "panicked"}
    /\ \E i \in Tasks : pc[i] = "panicked"
    /\ main' = "failed"
    /\ UNCHANGED <<points, triangulation, geometry_data, types, shared, mutex,
                   pc, local, calls, df, ds, oh, p3>>

\* a query, one at a time
PipeDelfinStart(min_distance) == ds.pc = "idle" /\ DelfinStart(min_distance)

PipeDtscanStart(min_pts, max_closeness) ==
    df.pc = "idle" /\ DtscanStart(min_pts, max_closeness)

\* the caller is done with the list a query returned
Drop ==
    /\ df.pc = "done" \/ ds.pc = "done"
    /\ df' = IdleDelfin
    /\ ds' = IdleDtscan
    /\ UNCHANGED <<points, triangulation, geometry_data, types, shared, mutex,
                   pc, local, main, calls, oh, p3>>

NextPipe ==
    \/ \E flat \in PipeInputs : SetTriangles(flat)
    \/ \E ty \in 0..2 : PreprocessStart(ty)
    \/ \E i \in Tasks : Lock(i)
    \/ \E i \in Tasks : ComputeStep(i)
    \/ \E i \in Tasks : MergeStep(i)
    \/ \E i \in Tasks : Panic(i)
    \/ \E i \in Tasks : LockPoisoned(i)
    \/ Join
    \/ Unwind
    \/ \E d \in MinDistances : PipeDelfinStart(d)
    \/ DelfinSeed
    \/ DelfinExpand
    \/ DelfinClose
    \/ \E a \in MinAreas : DelfinRetain(a)
    \/ \E n \in MinPts, c \in MaxCloseness : PipeDtscanStart(n, c)
    \/ DtscanOuter
    \/ DtscanPop
    \/ DtscanClose
    \/ DtscanReturn
    \/ Drop

SpecPipe == InitPipe /\ [][NextPipe]_vars

\* C12: with an empty triangle array, preprocess in every mode cannot fail
\* and ends with a graph that has no triangle record, no edge, no edge length
\* and no vertex connection; delfin and dtscan on it run to their end and
\* return the empty list for every threshold.
C12_EmptyInput ==
    triangulation = <<>> =>
        /\ main # "failed"
        /\ main = "preprocess" => Tasks = {}
        /\ main = "built" =>
            /\ geometry_data.triangles = <<>>
            /\ DOMAIN geometry_data.edge_to_triangles = {}
            /\ DOMAIN geometry_data.edge_lengths = {}
            /\ DOMAIN geometry_data.vertex_connections = {}
            /\ df.pc \in {"idle", "for", "done"}
            /\ df.pc # "idle" => df.triangles_sorted = <<>> /\ df.void_polygons = <<>>
            /\ ds.pc \in {"idle", "for", "done"}
            /\ ds.pc # "idle" => ds.remaining = {} /\ ds.clusters = <<>>

\* C12 witness: no points and no triangles, preprocess done in mode 1, and a
\* query that has returned.
C12_Witness ==
    /\ points = NoPoints
    /\ triangulation = <<>>
    /\ main = "built"
    /\ types = 1
    /\ df.pc = "done" \/ ds.pc = "done"

\* some chunk of the triangle array cannot be indexed as add_triangle does
BadInput == \E i \in Tasks : ~ChunkOk(points, Chunk(triangulation, i))

\* C13: while preprocess runs on a triangle array with an index that is no
\* point, or with a length that is not a multiple of 3, no step of any
\* interleaving changes the graph the instance holds, and the call does not
\* end as built: it can only end failed.
C13_FailsAtomically ==
    [][(main = "preprocess" /\ BadInput)
        => (geometry_data' = geometry_data /\ main' \in {"preprocess", "failed"})]_vars

\* C13 witness: a failed preprocess whose tasks had put part of the triangles
\* into the new graph, the instance still holding the graph of an earlier
\* build.
C13_Witness ==
    /\ main = "failed"
    /\ BadInput
    /\ geometry_data.triangles # <<>>
    /\ shared.triangles # <<>>
    /\ shared # geometry_data

-----------------------------------------------------------------------------
(* Xenobalanus::order_hull_edges *)

\* the vertices the hull edges are drawn from
HullVertices == 0..3

\* The edge lists handed to order_hull_edges: at most MaxHullEdges pairs of
\* two different vertices, no edge twice (in either direction), in any order.
\* The lists concave_hull hands over are those with p1 < p2 in every pair
\* (line 449), in the order the HashMap iterates (line 461).
HullInputs ==
    {l \in UNION {[1..n -> {e \in HullVertices \X HullVertices : e[1] # e[2]}]
                    : n \in 0..MaxHullEdges} :
        \A i, j \in DOMAIN l : i # j => MkEdge(l[i][1], l[i][2]) # MkEdge(l[j][1], l[j][2])}

\* lines 492-506: the first edge, from position i on, that has current_idx at
\* one end and a vertex not yet visited at the other: {that vertex}, or {}
RECURSIVE FindNext(_, _, _, _)
FindNext(edges, current_idx, visited, i) ==
    IF i > Len(edges) THEN {}
    ELSE IF edges[i][1] = current_idx /\ edges[i][2] \notin visited THEN {edges[i][2]}
    ELSE IF edges[i][2] = current_idx /\ edges[i][1] \notin visited THEN {edges[i][1]}
    ELSE FindNext(edges, current_idx, visited, i + 1)

\* line 514: the first index of every edge, in the order given
RECURSIVE StartIndices(_)
StartIndices(edges) ==
    IF edges = <<>> THEN <<>> ELSE <<Head(edges)[1]>> \o StartIndices(Tail(edges))

\* lines 477-487: the frame at the head of the while loop, or the Err of 478
HullFrame(edges) ==
    IF edges = <<>>
    THEN [pc |-> "err", hull_edge_indices |-> edges, visited |-> {},
          ordered_point_indices |-> <<>>, current_idx |-> 0, result |-> <<>>]
    ELSE [pc |-> "while", hull_edge_indices |-> edges, visited |-> {edges[1][1]},
          ordered_point_indices |-> <<edges[1][1]>>, current_idx |-> edges[1][2],
          result |-> <<>>]

\* lines 489-511: one turn of the while loop
HullTurn(st) ==
    LET next == FindNext(st.hull_edge_indices, st.current_idx, st.visited, 1)
    IN  IF next = {} THEN [st EXCEPT !.pc = "err"]
        ELSE [st EXCEPT !.ordered_point_indices = Append(@, The(next)),
                        !.visited = @ \cup next,
                        !.current_idx = The(next)]

InitHull ==
    /\ points = PointArray
    /\ triangulation = <<>>
    /\ types = 0
    /\ geometry_data = NewGeometryData
    /\ shared = NewGeometryData
    /\ mutex = {}
    /\ pc = <<>>
    /\ local = <<>>
    /\ main = "new"
    /\ calls = <<>>
    /\ df = IdleDelfin
    /\ ds = IdleDtscan
    /\ oh = IdleHull
    /\ p3 = Idle3D

\* lines 476-487: the call
OrderHullStart(edges) ==
    /\ oh.pc = "idle"
    /\ oh' = HullFrame(edges)
    /\ UNCHANGED <<points, triangulation, geometry_data, types, shared, mutex,
                   pc, local, main, calls, df, ds, p3>>

\* lines 489-511: the loop condition holds
OrderHullTurn ==
    /\ oh.pc = "while"
    /\ Cardinality(oh.visited) < Len(oh.hull_edge_indices) + 1
    /\ oh' = HullTurn(oh)
    /\ UNCHANGED <<points, triangulation, geometry_data, types, shared, mutex,
                   pc, local, main, calls, df, ds, p3>>

\* line 514: the loop is over; Ok of the first indices of the edges
OrderHullReturn ==
    /\ oh.pc = "while"
    /\ Cardinality(oh.visited) >= Len(oh.hull_edge_indices) + 1
    /\ oh' = [oh EXCEPT !.pc = "ok", !.result = StartIndices(oh.hull_edge_indices)]
    /\ UNCHANGED <<points, triangulation, geometry_data, types, shared, mutex,
                   pc, local, main, calls, df, ds, p3>>

NextHull ==
    \/ oh.pc = "idle" /\ \E edges \in HullInputs : OrderHullStart(edges)
    \/ OrderHullTurn
    \/ OrderHullReturn

SpecHull == InitHull /\ [][NextHull]_vars

\* the vertices of the given edges, and the edges without their direction
BoundaryVertices(edges) == UNION {{edges[i][1], edges[i][2]} : i \in DOMAIN edges}

BoundaryEdges(edges) == {MkEdge(edges[i][1], edges[i][2]) : i \in DOMAIN edges}

\* C14: an Ok of order_hull_edges is an ordered boundary path: every vertex
\* of the given edges is in it once, and every two consecutive vertices of it
\* are the ends of one of the given edges.
C14_OrderedPath ==
    oh.pc = "ok" =>
        LET r == oh.result
        IN  /\ Range(r) = BoundaryVertices(oh.hull_edge_indices)
            /\ \A i, j \in DOMAIN r : i # j => r[i] # r[j]
            /\ \A i \in 1..(Len(r) - 1) :
                MkEdge(r[i], r[i + 1]) \in BoundaryEdges(oh.hull_edge_indices)

\* the vertices joined to v by one of the edges
HullNeighbours(edges, v) ==
    {w \in BoundaryVertices(edges) : w # v /\ MkEdge(v, w) \in BoundaryEdges(edges)}

\* the vertices reached from the set S along the edges
RECURSIVE HullReach(_, _)
HullReach(edges, S) ==
    LET T == S \cup UNION {HullNeighbours(edges, v) : v \in S}
    IN  IF T = S THEN S ELSE HullReach(edges, T)

\* the edges link into one continuous path: one connected piece, no vertex
\* on more than two edges (a simple chain or a simple closed cycle)
Linkable(edges) ==
    /\ edges # <<>>
    /\ HullReach(edges, {edges[1][1]}) = BoundaryVertices(edges)
    /\ \A v \in BoundaryVertices(edges) : Cardinality(HullNeighbours(edges, v)) <= 2

\* C15: order_hull_edges ends in a failure exactly when the edge list is
\* empty or its edges do not link into one continuous path; on a simple
\* chain and on a simple closed cycle it ends in Ok, and an Ok never leaves
\* out a vertex of the edges.
C15_FailsIffUnlinkable ==
    oh.pc \in {"ok", "err"} =>
        /\ oh.pc = "err" <=> ~Linkable(oh.hull_edge_indices)
        /\ oh.pc = "ok" =>
            BoundaryVertices(oh.hull_edge_indices) \subseteq Range(oh.result)

-----------------------------------------------------------------------------
(* Xenobalanus::preprocess_3d *)

\* Node::Infinity, the sentinel of the convex hull; Node::Value(i) is i
Infinity == 0 - 1

\* the real vertices of a tetrahedron, in node order
RealNodes(nodes) == SelectSeq(nodes, LAMBDA x : x # Infinity)

\* The tetrahedra of a mesh: four nodes, the real ones different vertices in
\* increasing order.  Full tetrahedra are over the vertices 0..4; those with
\* one sentinel have it in any position and are over the vertices 0..3; two
\* with two sentinels, one with three and one with four stand for the rest.
Tetrahedra ==
    {t \in [1..4 -> {Infinity} \cup DOMAIN Vertices3D] :
        LET r == RealNodes(t)
        IN  /\ \A i \in 1..(Len(r) - 1) : r[i] < r[i + 1]
            /\ Len(r) = 3 => r[3] <= 3
            /\ Len(r) = 2 => t \in {<<Infinity, Infinity, 0, 1>>,
                                    <<0, Infinity, 1, Infinity>>}
            /\ Len(r) = 1 => t = <<Infinity, Infinity, Infinity, 0>>}

\* the meshes: at most MaxTetras tetrahedra
Meshes == UNION {[1..n -> Tetrahedra] : n \in 0..MaxTetras}

\* lines 160-180 without the arm of line 162: a sentinel in the first node
\* falls through to the last arm
HandleTetraNoFirstArm(gd, nodes) ==
    LET n1 == nodes[1]
        n2 == nodes[2]
        n3 == nodes[3]
        n4 == nodes[4]
    IN  IF n1 # Infinity /\ n2 = Infinity /\ n3 # Infinity /\ n4 # Infinity
        THEN AddTriangle3D(gd, n3, n4, n1)
        ELSE IF n1 # Infinity /\ n2 # Infinity /\ n3 = Infinity /\ n4 # Infinity
        THEN AddTriangle3D(gd, n4, n1, n2)
        ELSE IF n1 # Infinity /\ n2 # Infinity /\ n3 # Infinity /\ n4 = Infinity
        THEN AddTriangle3D(gd, n1, n2, n3)
        ELSE IF n1 # Infinity /\ n2 # Infinity /\ n3 # Infinity /\ n4 # Infinity
        THEN AddTetrahedron(gd, n1, n2, n3, n4)
        ELSE gd

\* lines 160-180: the match on the four nodes of one tetrahedron
HandleTetra(gd, nodes) ==
    LET n1 == nodes[1]
        n2 == nodes[2]
        n3 == nodes[3]
        n4 == nodes[4]
    IN  IF n1 = Infinity /\ n2 # Infinity /\ n3 # Infinity /\ n4 # Infinity
        THEN AddTriangle3D(gd, n2, n3, n4)
        ELSE IF n1 # Infinity /\ n2 = Infinity /\ n3 # Infinity /\ n4 # Infinity
        THEN AddTriangle3D(gd, n3, n4, n1)
        ELSE IF n1 # Infinity /\ n2 # Infinity /\ n3 = Infinity /\ n4 # Infinity
        THEN AddTriangle3D(gd, n4, n1, n2)
        ELSE IF n1 # Infinity /\ n2 # Infinity /\ n3 # Infinity /\ n4 = Infinity
        THEN AddTriangle3D(gd, n1, n2, n3)
        ELSE IF n1 # Infinity /\ n2 # Infinity /\ n3 # Infinity /\ n4 # Infinity
        THEN AddTetrahedron(gd, n1, n2, n3, n4)
        ELSE gd

\* The instance when preprocess_3d is called: the graph is a new one, or the
\* one an earlier 2D build in mode 0 left (preprocess_3d adds to the graph
\* the instance holds).
Init3D ==
    /\ points = PointArray
    /\ triangulation \in {<<>>, <<0, 1, 2, 0, 2, 3>>}
    /\ types = 0
    /\ geometry_data = SeqBuild(PointArray, triangulation, 0)
    /\ shared = NewGeometryData
    /\ mutex = {}
    /\ pc = <<>>
    /\ local = <<>>
    /\ main = "built"
    /\ calls = <<>>
    /\ df = IdleDelfin
    /\ ds = IdleDtscan
    /\ oh = IdleHull
    /\ p3 = Idle3D

\* lines 148-149: the call; tetrahedrons holds the mesh, before is the graph
\* at the call
Preprocess3DStart(mesh) ==
    /\ p3.pc = "idle"
    /\ p3' = [pc |-> "for", tetrahedrons |-> mesh, tetra_idx |-> 0,
              before |-> geometry_data]
    /\ UNCHANGED <<points, triangulation, geometry_data, types, shared, mutex,
                   pc, local, main, calls, df, ds, oh>>

\* lines 151-181: one turn of the for loop
Preprocess3DTurn ==
    /\ p3.pc = "for"
    /\ p3.tetra_idx < Len(p3.tetrahedrons)
    /\ geometry_data' = HandleTetra(geometry_data, p3.tetrahedrons[p3.tetra_idx + 1])
    /\ p3' = [p3 EXCEPT !.tetra_idx = @ + 1]
    /\ UNCHANGED <<points, triangulation, types, shared, mutex, pc, local, main,
                   calls, df, ds, oh>>

\* line 182: the loop is over
Preprocess3DReturn ==
    /\ p3.pc = "for"
    /\ p3.tetra_idx >= Len(p3.tetrahedrons)
    /\ p3' = [p3 EXCEPT !.pc = "done"]
    /\ UNCHANGED <<points, triangulation, geometry_data, types, shared, mutex,
                   pc, local, main, calls, df, ds, oh>>

Next3D ==
    \/ p3.pc = "idle" /\ \E mesh \in Meshes : Preprocess3DStart(mesh)
    \/ Preprocess3DTurn
    \/ Preprocess3DReturn

Spec3D == Init3D /\ [][Next3D]_vars

\* the number of sentinel nodes of a tetrahedron
Sentinels(nodes) == Cardinality({i \in 1..4 : nodes[i] = Infinity})

\* the canonical edges a tetrahedron has to register: every pair of its real
\* vertices when it has at most one sentinel (3 pairs, or 6), none otherwise
RegisteredPairs(nodes) ==
    IF Sentinels(nodes) <= 1
    THEN {MkEdge(a, b) : <<a, b>> \in
            {q \in Range(RealNodes(nodes)) \X Range(RealNodes(nodes)) : q[1] # q[2]}}
    ELSE {}

\* C16: at every turn of preprocess_3d the graph is the graph at the call
\* plus, for each tetrahedron handled so far that has at most one sentinel,
\* the canonical edges among its real vertices (3, or 6 for a full one) with
\* their 3D lengths and both directions of each as connections (6, or 12);
\* tetrahedra with two sentinels or more add nothing, and the triangle array
\* and edge_to_triangles are as they were at the call.
C16_Registered ==
    p3.pc \in {"for", "done"} =>
        LET E == UNION {RegisteredPairs(p3.tetrahedrons[k]) : k \in 1..p3.tetra_idx}
            b == p3.before
            g == geometry_data
        IN  /\ g.triangles = b.triangles
            /\ g.edge_to_triangles = b.edge_to_triangles
            /\ DOMAIN g.edge_lengths = (DOMAIN b.edge_lengths) \cup E
            /\ \A e \in DOMAIN g.edge_lengths :
                g.edge_lengths[e] = IF e \in E
                                    THEN distance3d(Vertices3D[e[1]], Vertices3D[e[2]])
                                    ELSE b.edge_lengths[e]
            /\ DOMAIN g.vertex_connections
                 = (DOMAIN b.vertex_connections) \cup UNION {{e[1], e[2]} : e \in E}
            /\ \A a \in DOMAIN g.vertex_connections :
                g.vertex_connections[a]
                  = (IF a \in DOMAIN b.vertex_connections THEN b.vertex_connections[a]
                     ELSE {})
                    \cup {x \in DOMAIN Vertices3D : x # a /\ MkEdge(a, x) \in E}
            /\ \A k \in 1..p3.tetra_idx :
                LET n == Sentinels(p3.tetrahedrons[k])
                IN  Cardinality(RegisteredPairs(p3.tetrahedrons[k]))
                        = IF n = 0 THEN 6 ELSE IF n = 1 THEN 3 ELSE 0

\* C16 witness: a finished call on a graph that held a 2D build, over a hull
\* tetrahedron with its sentinel in the first node and a full tetrahedron.
C16_Witness ==
    /\ p3.pc = "done"
    /\ p3.before.triangles # <<>>
    /\ Len(p3.tetrahedrons) = 2
    /\ p3.tetrahedrons[1][1] = Infinity
    /\ Sentinels(p3.tetrahedrons[1]) = 1
    /\ Sentinels(p3.tetrahedrons[2]) = 0
    /\ Cardinality(DOMAIN geometry_data.edge_lengths) > Cardinality(DOMAIN p3.before.edge_lengths)

-----------------------------------------------------------------------------
(* Clusters and components *)

\* the neighbours of v at no more than max_closeness
CloseNeighbours(v, max_closeness) ==
    {w \in geometry_data.vertex_connections[v] :
        /\ MkEdge(v, w) \in DOMAIN geometry_data.edge_lengths
        /\ geometry_data.edge_lengths[MkEdge(v, w)] <= max_closeness}

\* the connected component of the set S in the graph of the close edges
RECURSIVE CloseComponent(_, _)
CloseComponent(S, max_closeness) ==
    LET T == S \cup UNION {CloseNeighbours(v, max_closeness) : v \in S}
    IN  IF T = S THEN S ELSE CloseComponent(T, max_closeness)

\* a core vertex: min_pts neighbours at least, every one of them close
CoreVertex(v, min_pts, max_closeness) ==
    /\ Cardinality(geometry_data.vertex_connections[v]) >= min_pts
    /\ CloseNeighbours(v, max_closeness) = geometry_data.vertex_connections[v]

\* the components that hold a core vertex
CoreComponents(min_pts, max_closeness) ==
    {CloseComponent({v}, max_closeness) :
        v \in {u \in DOMAIN geometry_data.vertex_connections :
                 CoreVertex(u, min_pts, max_closeness)}}

\* the two triangles 0-1-2 and 3-4-5, far from each other
TwoTriangles == <<0, 1, 2, 3, 4, 5>>

\* C17: a finished dtscan call has returned one cluster for each connected
\* component of the close-edge graph that holds a core vertex, the cluster
\* being the whole component, and none for the other components; on the two
\* disconnected triangles, all vertices core, that is 2 clusters over all 6
\* vertices.
C17_Components ==
    ds.pc = "done" =>
        /\ ClusterSets(ds.clusters) = CoreComponents(ds.min_pts, ds.max_closeness)
        /\ Len(ds.clusters) = Cardinality(CoreComponents(ds.min_pts, ds.max_closeness))
        /\ (/\ triangulation = TwoTriangles
            /\ types \in {0, 1}
            /\ ds.min_pts = 2
            /\ ds.max_closeness >= 2)
           => /\ Len(ds.clusters) = 2
              /\ ClusterSets(ds.clusters) = {{0, 1, 2}, {3, 4, 5}}

\* C17 witness: the two disconnected triangles, every vertex core, two
\* clusters returned.
C17_Witness ==
    /\ ds.pc = "done"
    /\ triangulation = TwoTriangles
    /\ ds.min_pts = 2
    /\ ds.max_closeness = 2
    /\ Len(ds.clusters) = 2
    /\ ds.visited = DOMAIN ClusterPoints

\* a case of C17's last part: a component with no core vertex, left without
\* a cluster, beside a component that has one
C17_NoCoreComponent ==
    /\ ds.pc = "done"
    /\ Len(ds.clusters) = 1
    /\ \E v \in DOMAIN geometry_data.vertex_connections :
        /\ v \notin ds.visited
        /\ Cardinality(CloseComponent({v}, ds.max_closeness)) >= 2

-----------------------------------------------------------------------------
(* Seeding and growth of a region *)

\* the record of triangle i
Tri(i) == geometry_data.triangles[i + 1]

\* the terminal edge of the seed of the region under construction
SeedEdge == The(Tri(df.seed).terminal_edge)

\* the triangles on the seed's terminal edge, the seed apart
OnSeedEdge == Range(geometry_data.edge_to_triangles[SeedEdge]) \ {df.seed}

\* the edges of the triangles of a set
RegionEdges(set) == UNION {get_edges(Tri(i)) : i \in set}

\* the while loop of the region under construction is over
RegionGrown == df.pc = "while" /\ df.edges_to_expand = {}

Joiners(C, P) ==
    {n \in 0..(Len(geometry_data.triangles) - 1) :
        /\ n \notin C \cup P
        /\ Tri(n).terminal_edge # {}
        /\ The(Tri(n).terminal_edge) \in RegionEdges(C)}

\* the closure of C under the joining rule
RECURSIVE RuleClosure(_, _)
RuleClosure(C, P) ==
    IF Joiners(C, P) = {} THEN C ELSE RuleClosure(C \cup Joiners(C, P), P)

\* the triangles of the set reached from the set S through shared edges
RECURSIVE SharedEdgeReach(_, _)
SharedEdgeReach(S, set) ==
    LET T == S \cup {n \in set : \E m \in S : get_edges(Tri(n)) \cap get_edges(Tri(m)) # {}}
    IN  IF T = S THEN S ELSE SharedEdgeReach(T, set)

\* the triangles processed before the region under construction was seeded
ProcessedBefore == df.processed_triangles \ df.current_set

\* C19: in every turn of the expansion the triangles that join are triangles
\* not yet processed whose own terminal edge is an edge of a triangle already
\* in the region; when the expansion stops the region is the closure of its
\* seed under that rule (no triangle that could join is left) and it is
\* connected through shared edges.
C19_Closure ==
    /\ [](RegionGrown =>
            /\ df.current_set = RuleClosure({df.seed}, ProcessedBefore)
            /\ Joiners(df.current_set, ProcessedBefore) = {}
            /\ SharedEdgeReach({df.seed}, df.current_set) = df.current_set)
    /\ [][(df.pc = "while" /\ df'.pc = "while") =>
            \A n \in df'.current_set \ df.current_set :
                /\ n \notin df.processed_triangles
                /\ Tri(n).terminal_edge # {}
                /\ The(Tri(n).terminal_edge) \in RegionEdges(df.current_set)]_vars

\* C19 witness: a grown region of two triangles or more, beside it an
\* unprocessed triangle that shares an edge with it and has not joined.
C19_Witness ==
    /\ RegionGrown
    /\ Cardinality(df.current_set) >= 2
    /\ \E n \in 0..(Len(geometry_data.triangles) - 1) :
        /\ n \notin df.processed_triangles
        /\ get_edges(Tri(n)) \cap RegionEdges(df.current_set) # {}

-----------------------------------------------------------------------------
(* The order of the seeds *)

\* the length of the terminal edge of triangle i
TermLen(i) == geometry_data.edge_lengths[The(Tri(i).terminal_edge)]

\* triangle i comes before triangle j as a seed: a longer terminal edge, or
\* as long a one and a smaller index
SeedBefore(i, j) ==
    TermLen(i) > TermLen(j) \/ (TermLen(i) = TermLen(j) /\ i < j)

\* the seeds taken so far, the one of the region under construction last
SeedsTaken == IF df.pc = "while" THEN Append(df.seeds, df.seed) ELSE df.seeds

\* the position in grown of returned region k
GrownIndex(k) == CHOOSE i \in DOMAIN df.grown : df.grown[i] = df.void_polygons[k]

\* C20: the seeds of a delfin call are triangles whose terminal edge is at
\* least min_distance long, taken by non-increasing terminal-edge length and,
\* at equal length, by increasing index, and no such triangle is left
\* unprocessed at the end; the returned regions are in the order of their
\* seeds, so by non-increasing seed terminal-edge length, and each holds its
\* seed, a triangle whose terminal edge is at least min_distance long.
C20_SeedOrder ==
    df.pc # "idle" =>
        /\ \A k \in DOMAIN SeedsTaken :
            /\ Tri(SeedsTaken[k]).terminal_edge # {}
            /\ TermLen(SeedsTaken[k]) >= df.min_distance
        /\ \A j, k \in DOMAIN SeedsTaken :
            j < k => SeedBefore(SeedsTaken[j], SeedsTaken[k])
        /\ \A k \in DOMAIN df.grown : df.seeds[k] \in df.grown[k]
        /\ df.pc = "done" =>
            /\ \A i \in 0..(Len(geometry_data.triangles) - 1) :
                (Tri(i).terminal_edge # {} /\ TermLen(i) >= df.min_distance)
                    => i \in df.processed_triangles
            /\ \A k \in DOMAIN df.void_polygons :
                /\ \E i \in DOMAIN df.grown : df.grown[i] = df.void_polygons[k]
                /\ df.seeds[GrownIndex(k)] \in df.void_polygons[k]
                /\ TermLen(df.seeds[GrownIndex(k)]) >= df.min_distance
            /\ \A j, k \in DOMAIN df.void_polygons :
                j < k => /\ GrownIndex(j) < GrownIndex(k)
                         /\ TermLen(df.seeds[GrownIndex(j)])
                              >= TermLen(df.seeds[GrownIndex(k)])

\* C20 witness: a finished call with a positive min_distance that returned
\* two regions, the seed of the first with the longer terminal edge.
C20_Witness ==
    /\ df.pc = "done"
    /\ df.min_distance > 0
    /\ Len(df.void_polygons) = 2
    /\ TermLen(df.seeds[GrownIndex(1)]) > TermLen(df.seeds[GrownIndex(2)])

\* a case of C20's tie rule: two seeds with terminal edges of one length,
\* and a triangle below min_distance that is no seed
C20_TieTaken ==
    /\ df.pc = "done"
    /\ \E j, k \in DOMAIN df.seeds :
        j < k /\ TermLen(df.seeds[j]) = TermLen(df.seeds[k])
    /\ \E i \in 0..(Len(geometry_data.triangles) - 1) :
        Tri(i).terminal_edge # {} /\ TermLen(i) < df.min_distance

\* ---------------------------------------------------------------------------
\* The lock and the geometry of a triangle
\* ---------------------------------------------------------------------------

\* the tasks inside add_triangle: past line 263, before the guard's drop
InAddTriangle == {i \in Tasks : pc[i] \in {"compute", "merge"}}

\* C21 as stated: in the parallel build no worker is in its geometry
\* computation (edge lengths, area, terminal edge) while it holds the mutex.
C21_ComputeUnlocked ==
    main = "preprocess" =>
        \A i \in Tasks : pc[i] = "compute" => mutex # {i}

\* C21, amended: a worker takes the mutex before it calls add_triangle and
\* holds it through the geometry computation and the merge alike; so at most
\* one worker is inside add_triangle at a time, the mutex is held exactly
\* while one is, and a worker's computed geometry exists only under its lock.
C21_ComputeLocked ==
    main = "preprocess" =>
        /\ \A i \in InAddTriangle : mutex = {i}
        /\ Cardinality(InAddTriangle) <= 1
        /\ mutex # {} => mutex \subseteq InAddTriangle
        /\ \A i \in Tasks : local[i] # {} => (pc[i] = "merge" /\ mutex = {i})

\* C21 witness: a worker is at its geometry computation holding the mutex
\* while another has finished and a third has not yet got the lock.
C21_Witness ==
    /\ main = "preprocess"
    /\ \E i, j, k \in Tasks :
        /\ pc[i] = "compute" /\ mutex = {i}
        /\ pc[j] = "done"
        /\ pc[k] = "start"

\* ---------------------------------------------------------------------------
\* Termination of delfin
\* ---------------------------------------------------------------------------

\* a step inside a delfin call
InsideDelfin == df.pc # "idle" /\ df'.pc # "idle"

\* C22: delfin terminates on every graph built in mode 0 or 2: for each seed
\* the frontier edges_to_expand eventually becomes empty and the call
\* returns, because a step puts an edge into the frontier only when it marks
\* a triangle processed that was not, a triangle enters the region only
\* unprocessed (so at most once over the call), and processed_triangles
\* never shrinks and holds only triangles of the graph.
C22_Terminates ==
    /\ [][(types \in {0, 2} /\ InsideDelfin) =>
            /\ df.processed_triangles \subseteq df'.processed_triangles
            /\ df'.processed_triangles
                  \subseteq 0..(Len(geometry_data.triangles) - 1)
            /\ ~(df'.edges_to_expand \subseteq df.edges_to_expand)
                  => df'.processed_triangles # df.processed_triangles
            /\ (df.pc = "while" /\ df'.pc = "while") =>
                  (df'.current_set \ df.current_set)
                     \subseteq (df'.processed_triangles \ df.processed_triangles)
            /\ (df.pc = "for" /\ df'.pc = "while") =>
                  /\ df'.seed \notin df.processed_triangles
                  /\ df'.current_set = {df'.seed}]_vars
    /\ ((types \in {0, 2} /\ df.pc = "while")
            ~> (df.pc = "while" /\ df.edges_to_expand = {}))
    /\ ((types \in {0, 2} /\ df.pc # "idle") ~> (df.pc = "done"))

\* C22 witness: a call on a mode 0 or 2 graph has returned after growing at
\* least two regions, one of them by admitting a neighbour.
C22_Witness ==
    /\ types \in {0, 2}
    /\ df.pc = "done"
    /\ Len(df.grown) >= 2
    /\ \E k \in DOMAIN df.grown : Cardinality(df.grown[k]) >= 2

\* ---------------------------------------------------------------------------
\* Connections and their lengths
\* ---------------------------------------------------------------------------

\* the connections of the graph, as ordered pairs
Connections ==
    {ab \in (DOMAIN geometry_data.vertex_connections)
              \X UNION Range(geometry_data.vertex_connections) :
        ab[2] \in geometry_data.vertex_connections[ab[1]]}

\* C23: in every graph state reached by 2D merges and 3D registrations every
\* connection has a recorded length: whenever b is in vertex_connections[a],
\* the canonical edge (min(a,b), max(a,b)) is a key of edge_lengths; so the
\* lookups of dtscan always find a length, and an edge is close exactly when
\* its recorded length is at most max_closeness.
C23_LengthRecorded ==
    \A ab \in Connections :
        /\ MkEdge(ab[1], ab[2]) \in DOMAIN geometry_data.edge_lengths
        /\ EdgeLength(geometry_data, ab[1], ab[2]) # {}
        /\ \A m \in MaxCloseness :
             IsClose(geometry_data, ab[1], ab[2], m)
                <=> geometry_data.edge_lengths[MkEdge(ab[1], ab[2])] <= m

\* C23 witness: after a 2D merge and the registration of a tetrahedron the
\* graph has a connection along an edge of the 2D triangle and a connection
\* along an edge only the tetrahedron has.
C23_Witness ==
    /\ \E k \in DOMAIN calls : calls[k].op = "add_tetrahedron"
    /\ \E ab \in Connections :
         MkEdge(ab[1], ab[2]) \in DOMAIN geometry_data.edge_to_triangles
    /\ \E ab \in Connections :
         MkEdge(ab[1], ab[2]) \notin DOMAIN geometry_data.edge_to_triangles

\* ---------------------------------------------------------------------------
\* Queries on a graph built in the other mode
\* ---------------------------------------------------------------------------

\* C24: a query on a graph built in the wrong mode returns an empty list
\* without failing, whatever the thresholds: after preprocess(1) no triangle
\* record has a terminal edge, so a delfin call has no seed, never enters
\* its while loop, has only its return to take and returns no region; after
\* preprocess(2) vertex_connections is empty, so a dtscan call has no vertex
\* to look at, has only its return to take and returns no cluster.
C24_WrongModeEmpty ==
    /\ (main = "built" /\ types = 1) =>
          \A i \in 0..(Len(geometry_data.triangles) - 1) :
              Tri(i).terminal_edge = {}
    /\ (main = "built" /\ types = 2) =>
          DOMAIN geometry_data.vertex_connections = {}
    /\ (types = 1 /\ df.pc # "idle") =>
          /\ main = "built"
          /\ df.pc \in {"for", "done"}
          /\ df.triangles_sorted = <<>>
          /\ df.k > Len(df.triangles_sorted)
          /\ df.grown = <<>>
          /\ df.void_polygons = <<>>
    /\ (types = 2 /\ ds.pc # "idle") =>
          /\ main = "built"
          /\ ds.pc \in {"for", "done"}
          /\ ds.remaining = {}
          /\ ds.clusters = <<>>

\* C24 witness: delfin has returned, with the thresholds that let everything
\* through, on a graph of two triangles built by preprocess(1).
C24_Witness ==
    /\ main = "built"
    /\ types = 1
    /\ Len(geometry_data.triangles) >= 2
    /\ DOMAIN geometry_data.vertex_connections # {}
    /\ df.pc = "done"
    /\ df.min_distance = 0
    /\ df.min_area = {0}

\* the other case of C24: dtscan has returned, with the widest thresholds,
\* on a graph of two triangles built by preprocess(2)
C24_DtscanReturned ==
    /\ main = "built"
    /\ types = 2
    /\ Len(geometry_data.triangles) >= 2
    /\ \A i \in 0..(Len(geometry_data.triangles) - 1) : Tri(i).terminal_edge # {}
    /\ ds.pc = "done"
    /\ ds.min_pts = 2
    /\ ds.max_closeness = 17

====
